---- MODULE Spec2Model ----
(***************************************************************************)
(* Model of pmx: the profile repository (src/storage.rs), the profile      *)
(* commands of the command line (src/commands/profile.rs) and the prompt   *)
(* server (src/commands/mcp.rs).                                           *)
(*                                                                         *)
(* A character is a one-character string, except for the two characters    *)
(* that have no printable ASCII form: EAcute is the code point U+00E9      *)
(* (two bytes in UTF-8) and Bell is the control character U+0007.  A name  *)
(* or a content is a sequence of characters.  A path is a sequence of      *)
(* components from the filesystem root, a component being a sequence of    *)
(* characters.                                                             *)
(***************************************************************************)
EXTENDS Integers, Sequences, FiniteSets, TLC

VARIABLES fs, pre, last, editing, vname, vres, config, resp, tcontent, targs, tout,
          env, appending

vars == <<fs, pre, last, editing, vname, vres, config, resp, tcontent, targs, tout,
          env, appending>>

(***************************************************************************)
(* Characters and strings                                                  *)
(***************************************************************************)
EAcute == "U+00E9"

Bell == "U+0007"

\* str.len() counts bytes of the UTF-8 encoding
Utf8Len(c) == IF c = EAcute THEN 2 ELSE 1

\* char::is_control
IsControl(c) == c = Bell

\* the first byte of the UTF-8 encoding, which orders the characters used here
CharCode(c) ==
    CASE c = Bell -> 7
      [] c = " " -> 32
      [] c = "\"" -> 34
      [] c = "#" -> 35
      [] c = "*" -> 42
      [] c = "-" -> 45
      [] c = "." -> 46
      [] c = "/" -> 47
      [] c = ":" -> 58
      [] c = "<" -> 60
      [] c = ">" -> 62
      [] c = "?" -> 63
      [] c = "\\" -> 92
      [] c = "a" -> 97
      [] c = "b" -> 98
      [] c = "c" -> 99
      [] c = "d" -> 100
      [] c = "m" -> 109
      [] c = "x" -> 120
      [] c = "y" -> 121
      [] c = "|" -> 124
      [] c = EAcute -> 195

\* the sum of Utf8Len over the characters, each being one or two bytes long
ByteLen(s) == Len(s) + Cardinality({i \in DOMAIN s : Utf8Len(s[i]) = 2})

Repeat(c, n) == [i \in 1..n |-> c]

\* str::contains(pat) for a pattern given as a sequence of characters
Contains(s, pat) ==
    \E i \in 1..(Len(s) - Len(pat) + 1) : SubSeq(s, i, i + Len(pat) - 1) = pat

StartsWith(s, pat) == Len(s) >= Len(pat) /\ SubSeq(s, 1, Len(pat)) = pat

EndsWith(s, pat) ==
    Len(s) >= Len(pat) /\ SubSeq(s, Len(s) - Len(pat) + 1, Len(s)) = pat

\* str::split(sep): the pieces between the occurrences of the character sep
Split(s, sep) ==
    LET pos == {i \in DOMAIN s : s[i] = sep}
        n == Cardinality(pos)
        \* the position of the k-th separator, 0 and Len(s) + 1 being the ends
        At(k) == IF k = 0 THEN 0
                 ELSE IF k = n + 1 THEN Len(s) + 1
                 ELSE CHOOSE i \in pos : Cardinality({j \in pos : j <= i}) = k
    IN  [k \in 1..(n + 1) |-> SubSeq(s, At(k - 1) + 1, At(k) - 1)]

DotMd == <<".", "m", "d">>

(***************************************************************************)
(* validate_profile_name                                                   *)
(***************************************************************************)
MaxNameLen == 255

InvalidChars == {"<", ">", ":", "\"", "|", "?", "*"}

\* the loop over name.split('/'), in order (profile.rs:191-200)
RECURSIVE CheckComponents(_)
CheckComponents(comps) ==
    IF comps = <<>> THEN "Ok"
    ELSE IF Head(comps) = <<>> THEN "EmptyComponent"
    ELSE IF Head(comps) = <<".">> \/ Head(comps) = <<".", ".">> THEN "DotComponent"
    ELSE CheckComponents(Tail(comps))

validate_profile_name(name) ==
    IF name = <<>> THEN "Empty"
    ELSE IF ByteLen(name) > MaxNameLen THEN "TooLong"
    ELSE IF Contains(name, <<".", ".">>) \/ Contains(name, <<"\\">>)
        THEN "Traversal"
    ELSE IF Contains(name, <<"/">>) /\ CheckComponents(Split(name, "/")) # "Ok"
        THEN CheckComponents(Split(name, "/"))
    ELSE IF \E i \in DOMAIN name : name[i] \in InvalidChars \/ IsControl(name[i])
        THEN "InvalidChars"
    ELSE "Ok"

(***************************************************************************)
(* Names given to the validator                                            *)
(***************************************************************************)
MaxShortLen == 3

ValAlphabet == {"a", ".", "/", "\\", "<", Bell, EAcute}

ShortNames == UNION {[1..n -> ValAlphabet] : n \in 0..MaxShortLen}

LongNames ==
    { Repeat("a", MaxNameLen), Repeat("a", MaxNameLen + 1),
      Repeat(EAcute, MaxNameLen \div 2), Repeat(EAcute, (MaxNameLen + 1) \div 2),
      Repeat(EAcute, MaxNameLen), Repeat(EAcute, MaxNameLen + 1) }

ValNames == ShortNames \cup LongNames

(***************************************************************************)
(* The filesystem.  fs maps each existing path to its node; the root <<>>  *)
(* always exists and is a directory.  There are no symbolic links.         *)
(***************************************************************************)
NoPath == << <<"?">>, <<"?">>, <<"?">>, <<"?">>, <<"?">>, <<"?">> >>

DirNode == [kind |-> "dir", content |-> <<>>]

FileNode(c) == [kind |-> "file", content |-> c]

\* Storage.path, the storage root
StoragePath == << <<"r">> >>

\* self.path.join("repo")
RepoPath == StoragePath \o << <<"r", "e", "p", "o">> >>

IsDir(f, p) == p = <<>> \/ (p \in DOMAIN f /\ f[p].kind = "dir")

IsFile(f, p) == p \in DOMAIN f /\ f[p].kind = "file"

Parent(p) == IF p = <<>> THEN <<>> ELSE SubSeq(p, 1, Len(p) - 1)

IsPrefix(p, q) == Len(p) <= Len(q) /\ SubSeq(q, 1, Len(p)) = p

\* the path is strictly below <root>/repo
InsideRepo(p) == IsPrefix(RepoPath, p) /\ p # RepoPath

\* path resolution by the operating system: every component but the last is
\* looked up in a directory; "" and "." stay, ".." goes to the parent
RECURSIVE Lookup(_, _, _)
Lookup(f, cur, comps) ==
    IF comps = <<>> THEN cur
    ELSE IF ~IsDir(f, cur) THEN NoPath
    ELSE IF Head(comps) = <<>> \/ Head(comps) = <<".">> THEN Lookup(f, cur, Tail(comps))
    ELSE IF Head(comps) = <<".", ".">> THEN Lookup(f, Parent(cur), Tail(comps))
    ELSE Lookup(f, cur \o <<Head(comps)>>, Tail(comps))

\* PathBuf::join: an absolute argument replaces the base
JoinStart(name) == IF name # <<>> /\ Head(name) = "/" THEN <<>> ELSE RepoPath

\* the components of format!("{}.md", name)
ProfileComps(name) == Split(name \o DotMd, "/")

\* self.path.join("repo").join(format!("{}.md", name)), as the system resolves it
ProfilePath(f, name) == Lookup(f, JoinStart(name), ProfileComps(name))

\* Path::exists
PathExists(f, p) == p # NoPath /\ p \in DOMAIN f

Access(p, how) == [path |-> p, access |-> how]

\* std::fs::create_dir_all on the components comps, from the directory cur
RECURSIVE create_dir_all(_, _, _, _)
create_dir_all(f, cur, comps, made) ==
    IF comps = <<>> THEN [ok |-> TRUE, fs |-> f, made |-> made]
    ELSE IF Head(comps) = <<>> \/ Head(comps) = <<".">>
        THEN create_dir_all(f, cur, Tail(comps), made)
    ELSE IF Head(comps) = <<".", ".">>
        THEN create_dir_all(f, Parent(cur), Tail(comps), made)
    ELSE LET nxt == cur \o <<Head(comps)>> IN
        IF IsDir(f, nxt) THEN create_dir_all(f, nxt, Tail(comps), made)
        ELSE IF nxt \in DOMAIN f THEN [ok |-> FALSE, fs |-> f, made |-> made]
        ELSE create_dir_all((nxt :> DirNode) @@ f, nxt, Tail(comps),
                            made \cup {Access(nxt, "mkdir")})

(***************************************************************************)
(* Storage (src/storage.rs).  An operation gives a record: res the         *)
(* outcome, value the returned value, fs the filesystem afterwards and     *)
(* touched the accesses it made to existing or created nodes.              *)
(***************************************************************************)
Outcome(r, v, f, t) == [res |-> r, value |-> v, fs |-> f, touched |-> t]

profile_exists(f, name) == PathExists(f, ProfilePath(f, name))

get_repo_path(f, name) ==
    LET p == ProfilePath(f, name) IN
    IF PathExists(f, p) THEN Outcome("Ok", p, f, {Access(p, "stat")})
    ELSE Outcome("NotFound", <<>>, f, {})

get_profile_content(f, name) ==
    LET r == get_repo_path(f, name) IN
    IF r.res # "Ok" THEN r
    ELSE IF IsFile(f, r.value)
        THEN Outcome("Ok", f[r.value].content, f, r.touched \cup {Access(r.value, "read")})
    ELSE Outcome("IOError", <<>>, f, r.touched)

\* get_content that makes an empty document for a name that has none
get_content_create_missing(f, name) ==
    IF get_profile_content(f, name).res = "NotFound"
    THEN Outcome("NotFound", <<>>, (RepoPath \o <<name \o DotMd>> :> FileNode(<<>>)) @@ f, {})
    ELSE get_profile_content(f, name)

get_content(f, name) == get_profile_content(f, name)

\* create_profile with the ".md" extension forgotten in the written path
create_profile_no_extension(f, name, content) ==
    LET comps == Split(name, "/")
        d == create_dir_all(f, JoinStart(name), SubSeq(comps, 1, Len(comps) - 1), {})
        p == Lookup(d.fs, JoinStart(name), comps)
    IN  IF ~d.ok THEN Outcome("IOError", <<>>, d.fs, d.made)
        ELSE IF p = NoPath \/ IsDir(d.fs, p) THEN Outcome("IOError", <<>>, d.fs, d.made)
        ELSE Outcome("Ok", <<>>, (p :> FileNode(content)) @@ d.fs,
                     d.made \cup {Access(p, "write")})

create_profile(f, name, content) ==
    LET comps == ProfileComps(name)
        d == create_dir_all(f, JoinStart(name), SubSeq(comps, 1, Len(comps) - 1), {})
        p == Lookup(d.fs, JoinStart(name), comps)
    IN  IF ~d.ok THEN Outcome("IOError", <<>>, d.fs, d.made)
        ELSE IF p = NoPath \/ IsDir(d.fs, p) THEN Outcome("IOError", <<>>, d.fs, d.made)
        ELSE Outcome("Ok", <<>>, (p :> FileNode(content)) @@ d.fs,
                     d.made \cup {Access(p, "write")})

delete_profile(f, name) ==
    LET r == get_repo_path(f, name) IN
    IF r.res # "Ok" THEN r
    ELSE IF IsFile(f, r.value)
        THEN Outcome("Ok", <<>>, [q \in DOMAIN f \ {r.value} |-> f[q]],
                     r.touched \cup {Access(r.value, "remove")})
    ELSE Outcome("IOError", <<>>, f, r.touched)

\* the entries of a directory
Children(f, p) == {q \in DOMAIN f : Len(q) = Len(p) + 1 /\ IsPrefix(p, q)}

\* recursive_list: the files below p, in every order in which read_dir can
\* deliver the entries of each directory
RECURSIVE recursive_list(_, _), ListEntries(_, _)
recursive_list(f, p) ==
    IF IsDir(f, p) THEN ListEntries(f, Children(f, p))
    ELSE IF IsFile(f, p) THEN {<<p>>}
    ELSE {}

ListEntries(f, entries) ==
    IF entries = {} THEN {<<>>}
    ELSE UNION { {h \o t : h \in recursive_list(f, e), t \in ListEntries(f, entries \ {e})} :
                 e \in entries }

\* Path::extension() == Some("md")
HasMdExtension(comp) ==
    /\ comp # <<".", ".">>
    /\ \E i \in 2..Len(comp) :
           /\ comp[i] = "."
           /\ \A j \in (i + 1)..Len(comp) : comp[j] # "."
           /\ SubSeq(comp, i + 1, Len(comp)) = <<"m", "d">>

\* Path::to_string_lossy of a relative path
RECURSIVE JoinSlash(_)
JoinSlash(comps) ==
    IF comps = <<>> THEN <<>>
    ELSE IF Len(comps) = 1 THEN Head(comps)
    ELSE Head(comps) \o <<"/">> \o JoinSlash(Tail(comps))

\* str::trim_end_matches(pat): removes the suffix pat as often as it occurs
RECURSIVE TrimEndMatches(_, _)
TrimEndMatches(s, pat) ==
    IF EndsWith(s, pat) THEN TrimEndMatches(SubSeq(s, 1, Len(s) - Len(pat)), pat)
    ELSE s

\* Iterator::filter on a sequence
RECURSIVE SelectPaths(_, _)
SelectPaths(f, paths) ==
    IF paths = <<>> THEN <<>>
    ELSE IF IsFile(f, Head(paths)) /\ HasMdExtension(Head(paths)[Len(Head(paths))])
        THEN <<Head(paths)>> \o SelectPaths(f, Tail(paths))
    ELSE SelectPaths(f, Tail(paths))

\* strip_prefix(&repo_path), to_string_lossy, trim_end_matches(".md")
ListedName(path) ==
    TrimEndMatches(JoinSlash(SubSeq(path, Len(RepoPath) + 1, Len(path))), DotMd)

\* the sequences list_repos can return
list_repos(f) ==
    { [i \in DOMAIN SelectPaths(f, raw) |-> ListedName(SelectPaths(f, raw)[i])] :
      raw \in recursive_list(f, RepoPath) }

(***************************************************************************)
(* The profile commands (src/commands/profile.rs)                          *)
(***************************************************************************)
Newline == "\n"

IsWhitespace(c) == c = " " \/ c = Newline

\* str::trim
RECURSIVE TrimStart(_), TrimEnd(_)
TrimStart(s) == IF s # <<>> /\ IsWhitespace(Head(s)) THEN TrimStart(Tail(s)) ELSE s

TrimEnd(s) ==
    IF s # <<>> /\ IsWhitespace(s[Len(s)]) THEN TrimEnd(SubSeq(s, 1, Len(s) - 1)) ELSE s

Trim(s) == TrimEnd(TrimStart(s))

\* format!("# {}", name)
TemplateHeader(name) == <<"#", " ">> \o name

CommentOpen == <<"<", "!", "-", "-">>

\* "\n\n<!-- Add your profile content here -->"
TemplateComment ==
    <<Newline, Newline, "<", "!", "-", "-", " ", "A", "d", "d", " ",
    "y", "o", "u", "r", " ", "p", "r", "o", "f", "i", "l", "e", " ",
    "c", "o", "n", "t", "e", "n", "t", " ", "h", "e", "r", "e", " ",
    "-", "-", ">">>

\* the is_empty test of create (profile.rs:97-110)
EffectivelyEmpty(name, content) ==
    \/ Trim(content) = <<>>
    \/ Trim(content) = TemplateHeader(name)
    \/ Trim(content) = Trim(TemplateHeader(name) \o TemplateComment)
    \/ \A i \in DOMAIN Split(Trim(content), Newline) :
           LET line == Trim(Split(Trim(content), Newline)[i]) IN
               line = <<>> \/ StartsWith(line, <<"#">>) \/ StartsWith(line, CommentOpen)

(***************************************************************************)
(* Config (src/storage.rs)                                                 *)
(***************************************************************************)
\* DisableOption::DisableBool(b)
DisableBool(b) == [tag |-> "Bool", flag |-> b, names |-> <<>>]

\* DisableOption::List(names)
DisableList(names) == [tag |-> "List", flag |-> FALSE, names |-> names]

\* the Config written by Storage::initialize
DefaultConfig ==
    [agents |-> [disable_claude |-> FALSE, disable_codex |-> FALSE],
     mcp |-> [disable_prompts |-> DisableBool(FALSE), disable_tools |-> DisableBool(FALSE)]]

\* Storage::is_mcp_enabled with "or" for "and": false as soon as one of the
\* two values is Bool(true)
is_mcp_enabled_either(cfg) ==
    ~(cfg.mcp.disable_prompts = DisableBool(TRUE) \/ cfg.mcp.disable_tools = DisableBool(TRUE))

\* Storage::is_mcp_enabled
is_mcp_enabled(cfg) ==
    ~(cfg.mcp.disable_prompts = DisableBool(TRUE) /\ cfg.mcp.disable_tools = DisableBool(TRUE))

(***************************************************************************)
(* config.toml.  The document is a sequence of lines; a line is a table    *)
(* header, a key with a value, a blank line, or something that is not TOML *)
(***************************************************************************)
TomlBool(b) == [kind |-> "bool", flag |-> b, items |-> <<>>]

TomlArray(items) == [kind |-> "array", flag |-> FALSE, items |-> items]

TomlInteger == [kind |-> "integer", flag |-> FALSE, items |-> <<>>]

TableLine(name) == [kind |-> "table", key |-> name, value |-> TomlBool(FALSE)]

KeyValueLine(key, value) == [kind |-> "kv", key |-> key, value |-> value]

BlankLine == [kind |-> "blank", key |-> "", value |-> TomlBool(FALSE)]

JunkLine == [kind |-> "junk", key |-> "", value |-> TomlBool(FALSE)]

\* the names used in the lists of the documents
ListA == << <<"a">> >>

ListAll == << <<"a">>, <<"a", "/", "b">>, <<"A">> >>

ListBC == << <<"a", "/", "b">>, <<"c">> >>

\* the lines the documents are made of, with what the TOML parser reads in
\* each
LineTable ==
    ("[agents]" :> TableLine("agents")) @@ ("[mcp]" :> TableLine("mcp"))
    @@ ("" :> BlankLine)
    @@ ("disable_claude = true" :> KeyValueLine("disable_claude", TomlBool(TRUE)))
    @@ ("disable_claude = false" :> KeyValueLine("disable_claude", TomlBool(FALSE)))
    @@ ("disable_codex = true" :> KeyValueLine("disable_codex", TomlBool(TRUE)))
    @@ ("disable_codex = false" :> KeyValueLine("disable_codex", TomlBool(FALSE)))
    @@ ("disable_prompts = true" :> KeyValueLine("disable_prompts", TomlBool(TRUE)))
    @@ ("disable_prompts = false" :> KeyValueLine("disable_prompts", TomlBool(FALSE)))
    @@ ("disable_prompts = []" :> KeyValueLine("disable_prompts", TomlArray(<<>>)))
    @@ ("disable_prompts = [\"a\"]" :> KeyValueLine("disable_prompts", TomlArray(ListA)))
    @@ ("disable_prompts = [\"a\", \"a/b\", \"A\"]"
            :> KeyValueLine("disable_prompts", TomlArray(ListAll)))
    @@ ("disable_prompts = [\"a/b\", \"c\"]"
            :> KeyValueLine("disable_prompts", TomlArray(ListBC)))
    @@ ("disable_prompts = 1" :> KeyValueLine("disable_prompts", TomlInteger))
    @@ ("disable_tools = true" :> KeyValueLine("disable_tools", TomlBool(TRUE)))
    @@ ("disable_tools = false" :> KeyValueLine("disable_tools", TomlBool(FALSE)))
    @@ ("disable_tools = []" :> KeyValueLine("disable_tools", TomlArray(<<>>)))
    @@ ("disable_tools = [\"a\"]" :> KeyValueLine("disable_tools", TomlArray(ListA)))

ParseLine(line) == IF line \in DOMAIN LineTable THEN LineTable[line] ELSE JunkLine

\* the state of the TOML parser: the table it is in, the tables and the keys
\* it has seen, and the values of the keys
ParserStart ==
    [ok |-> TRUE, table |-> "", tables |-> {}, values |-> <<>>]

\* toml::from_str, the syntax: a line that is not TOML, a table defined twice
\* and a key defined twice are errors
RECURSIVE ParseLines(_, _)
ParseLines(lines, st) ==
    IF lines = <<>> \/ ~st.ok THEN st
    ELSE LET l == ParseLine(Head(lines)) IN
        IF l.kind = "blank" THEN ParseLines(Tail(lines), st)
        ELSE IF l.kind = "junk" THEN [st EXCEPT !.ok = FALSE]
        ELSE IF l.kind = "table"
            THEN IF l.key \in st.tables THEN [st EXCEPT !.ok = FALSE]
                 ELSE ParseLines(Tail(lines),
                                 [st EXCEPT !.table = l.key, !.tables = @ \cup {l.key}])
        ELSE IF <<st.table, l.key>> \in DOMAIN st.values THEN [st EXCEPT !.ok = FALSE]
        ELSE ParseLines(Tail(lines),
                        [st EXCEPT !.values = (<<st.table, l.key>> :> l.value) @@ @])

\* a field of type bool can be read from the parsed document
HasBool(st, table, key) ==
    <<table, key>> \in DOMAIN st.values /\ st.values[<<table, key>>].kind = "bool"

\* a field of type DisableOption (untagged, #[serde(default)]) can be read: it
\* is absent, a boolean or an array of strings
OptionReadable(st, key) ==
    <<"mcp", key>> \in DOMAIN st.values
        => st.values[<<"mcp", key>>].kind \in {"bool", "array"}

\* a field of type DisableOption with Bool(false) for every absent field
ReadOption_(st, key, absent) ==
    IF <<"mcp", key>> \notin DOMAIN st.values THEN absent
    ELSE IF st.values[<<"mcp", key>>].kind = "bool"
        THEN DisableBool(st.values[<<"mcp", key>>].flag)
    ELSE DisableList(st.values[<<"mcp", key>>].items)

\* toml::from_str with a default of Bool(true) for the absent fields of mcp
from_str_default_disabled(content) ==
    LET st == ParseLines(content, ParserStart) IN
        IF ~st.ok \/ "agents" \notin st.tables
              \/ ~HasBool(st, "agents", "disable_claude")
              \/ ~HasBool(st, "agents", "disable_codex")
              \/ ~OptionReadable(st, "disable_prompts") \/ ~OptionReadable(st, "disable_tools")
        THEN [ok |-> FALSE, config |-> DefaultConfig]
        ELSE [ok |-> TRUE,
              config |->
                  [agents |-> [disable_claude |-> st.values[<<"agents", "disable_claude">>].flag,
                               disable_codex |-> st.values[<<"agents", "disable_codex">>].flag],
                   mcp |-> [disable_prompts |-> ReadOption_(st, "disable_prompts", DisableBool(TRUE)),
                            disable_tools |-> ReadOption_(st, "disable_tools", DisableBool(TRUE))]]]

\* toml::from_str that gives the default Config for a document it cannot read
from_str_lenient(content) ==
    LET st == ParseLines(content, ParserStart) IN
        IF ~st.ok \/ "agents" \notin st.tables
              \/ ~HasBool(st, "agents", "disable_claude")
              \/ ~HasBool(st, "agents", "disable_codex")
              \/ ~OptionReadable(st, "disable_prompts") \/ ~OptionReadable(st, "disable_tools")
        THEN [ok |-> TRUE, config |-> DefaultConfig]
        ELSE [ok |-> TRUE,
              config |->
                  [agents |-> [disable_claude |-> st.values[<<"agents", "disable_claude">>].flag,
                               disable_codex |-> st.values[<<"agents", "disable_codex">>].flag],
                   mcp |-> [disable_prompts |-> ReadOption_(st, "disable_prompts", DisableBool(FALSE)),
                            disable_tools |-> ReadOption_(st, "disable_tools", DisableBool(FALSE))]]]

\* toml::from_str::<Config>: agents and its two booleans are required, mcp
\* and its two fields have defaults
from_str(content) ==
    LET st == ParseLines(content, ParserStart) IN
        IF ~st.ok \/ "agents" \notin st.tables
              \/ ~HasBool(st, "agents", "disable_claude")
              \/ ~HasBool(st, "agents", "disable_codex")
              \/ ~OptionReadable(st, "disable_prompts") \/ ~OptionReadable(st, "disable_tools")
        THEN [ok |-> FALSE, config |-> DefaultConfig]
        ELSE [ok |-> TRUE,
              config |->
                  [agents |-> [disable_claude |-> st.values[<<"agents", "disable_claude">>].flag,
                               disable_codex |-> st.values[<<"agents", "disable_codex">>].flag],
                   mcp |-> [disable_prompts |-> ReadOption_(st, "disable_prompts", DisableBool(FALSE)),
                            disable_tools |-> ReadOption_(st, "disable_tools", DisableBool(FALSE))]]]

\* the line that holds a key with a value
FormatLine(key, value) ==
    CHOOSE line \in DOMAIN LineTable : LineTable[line] = KeyValueLine(key, value)

ToToml(option) ==
    IF option.tag = "Bool" THEN TomlBool(option.flag) ELSE TomlArray(option.names)

\* toml::to_string(&Config)
to_string(cfg) ==
    <<"[agents]",
      FormatLine("disable_claude", TomlBool(cfg.agents.disable_claude)),
      FormatLine("disable_codex", TomlBool(cfg.agents.disable_codex)),
      "",
      "[mcp]",
      FormatLine("disable_prompts", ToToml(cfg.mcp.disable_prompts)),
      FormatLine("disable_tools", ToToml(cfg.mcp.disable_tools))>>

\* path.join("config.toml")
ConfigPath(path) == path \o << <<"c", "o", "n", "f", "i", "g", ".", "t", "o", "m", "l">> >>

\* Config::persist
persist(f, cfg, path) ==
    IF IsDir(f, ConfigPath(path)) \/ ~IsDir(f, path)
    THEN Outcome("IOError", <<>>, f, {})
    ELSE Outcome("Ok", <<>>, (ConfigPath(path) :> FileNode(to_string(cfg))) @@ f,
                 {Access(ConfigPath(path), "write")})

\* the body of Config::load
load_from(f, config_path, parsed) ==
    IF ~PathExists(f, config_path) THEN Outcome("ConfigMissing", DefaultConfig, f, {})
    ELSE IF ~IsFile(f, config_path)
        THEN Outcome("IOError", DefaultConfig, f, {Access(config_path, "stat")})
    ELSE IF ~parsed.ok
        THEN Outcome("ParseError", DefaultConfig, f, {Access(config_path, "read")})
    ELSE Outcome("Ok", parsed.config, f, {Access(config_path, "read")})

\* Config::load: config_path is path.join("config.toml") and parsed what
\* toml::from_str makes of its content
load(f, path) == load_from(f, ConfigPath(path), from_str(f[ConfigPath(path)].content))

\* Storage::validate
validate(f, path) ==
    IF ~PathExists(f, path) THEN "RootMissing"
    ELSE IF ~IsDir(f, path) THEN "RootNotDirectory"
    ELSE IF ~PathExists(f, path \o << <<"r", "e", "p", "o">> >>) THEN "RepoMissing"
    ELSE IF ~IsDir(f, path \o << <<"r", "e", "p", "o">> >>) THEN "RepoNotDirectory"
    ELSE IF ~PathExists(f, ConfigPath(path)) THEN "ConfigMissing"
    ELSE IF ~IsFile(f, ConfigPath(path)) THEN "ConfigNotFile"
    ELSE "Ok"

\* a Storage value: its path and its Config
StorageValue(path, cfg) == [path |-> path, config |-> cfg]

\* the body of Storage::new
new_from(f, path, valid, loaded) ==
    IF valid # "Ok" THEN Outcome(valid, StorageValue(path, DefaultConfig), f, {})
    ELSE Outcome(loaded.res, StorageValue(path, loaded.value), f, loaded.touched)

\* Storage::new: valid is the result of Self::validate(&path) and loaded the
\* one of Config::load(&path)
new(f, path) == new_from(f, path, validate(f, path), load(f, path))

\* Storage::initialize
initialize(f, path) ==
    LET d == create_dir_all(f, <<>>, path, {})
        r == create_dir_all(d.fs, <<>>, path \o << <<"r", "e", "p", "o">> >>, d.made)
        w == persist(r.fs, DefaultConfig, path)
    IN  IF PathExists(f, path)
            THEN Outcome("AlreadyExists", StorageValue(path, DefaultConfig), f, {})
        ELSE IF ~d.ok THEN Outcome("IOError", StorageValue(path, DefaultConfig), d.fs, d.made)
        ELSE IF ~r.ok THEN Outcome("IOError", StorageValue(path, DefaultConfig), r.fs, r.made)
        ELSE IF w.res # "Ok"
            THEN Outcome("IOError", StorageValue(path, DefaultConfig), w.fs, r.made)
        ELSE Outcome(validate(w.fs, path), StorageValue(path, DefaultConfig), w.fs,
                     r.made \cup w.touched)

\* utils::home_dir
HomePath == << <<"h">> >>

\* home_dir().join(".config/pmx")
OtherPath ==
    HomePath \o << <<".", "c", "o", "n", "f", "i", "g">>, <<"p", "m", "x">> >>

\* the process environment and the command line: NoPath for what is not given
Environment(arg, pmx_config_file, xdg_config_home) ==
    [arg |-> arg, pmx_config_file |-> pmx_config_file, xdg_config_home |-> xdg_config_home]

NoEnv == Environment(NoPath, NoPath, NoPath)

\* Self::new(path).or_else(|e| Self::initialize(other_path))
or_else_initialize(f, storage) ==
    IF storage.res = "Ok" THEN storage ELSE initialize(f, OtherPath)

\* Storage::auto
auto(f, e) ==
    or_else_initialize(f, new(f, IF e.xdg_config_home # NoPath THEN e.xdg_config_home
                                 ELSE OtherPath))

\* main, lines 8-12: the storage of the process
discover(f, e) ==
    IF e.arg # NoPath \/ e.pmx_config_file # NoPath
    THEN new(f, IF e.arg # NoPath THEN e.arg ELSE e.pmx_config_file)
    ELSE auto(f, e)

\* no append of an agent profile is between its read and its write
NoAppends == [pending |-> <<>>, started |-> 0]

(***************************************************************************)
(* The prompt server (src/commands/mcp.rs): enablement and templates       *)
(***************************************************************************)
\* is_prompt_enabled with a comparison that ignores the case of A
is_prompt_enabled_ignore_case(cfg, prompt_name) ==
    IF cfg.mcp.disable_prompts.tag = "Bool" THEN ~cfg.mcp.disable_prompts.flag
    ELSE ~\E i \in DOMAIN cfg.mcp.disable_prompts.names :
             [k \in DOMAIN prompt_name |-> IF prompt_name[k] = "A" THEN "a" ELSE prompt_name[k]]
                 = cfg.mcp.disable_prompts.names[i]

\* is_prompt_enabled with the exact-match test replaced by a prefix test
is_prompt_enabled_prefix(cfg, prompt_name) ==
    IF cfg.mcp.disable_prompts.tag = "Bool" THEN ~cfg.mcp.disable_prompts.flag
    ELSE ~\E i \in DOMAIN cfg.mcp.disable_prompts.names :
             StartsWith(prompt_name, cfg.mcp.disable_prompts.names[i])

is_prompt_enabled(cfg, prompt_name) ==
    IF cfg.mcp.disable_prompts.tag = "Bool" THEN ~cfg.mcp.disable_prompts.flag
    ELSE ~\E i \in DOMAIN cfg.mcp.disable_prompts.names :
             cfg.mcp.disable_prompts.names[i] = prompt_name

Letters ==
    {"A", "B", "C", "D", "E", "F", "G", "H", "I", "J", "K", "L", "M", "N", "O",
     "P", "Q", "R", "S", "T", "U", "V", "W", "X", "Y", "Z", "a", "b", "c", "d",
     "e", "f", "g", "h", "i", "j", "k", "l", "m", "n", "o", "p", "q", "r", "s",
     "t", "u", "v", "w", "x", "y", "z"}

Digits == {"0", "1", "2", "3", "4", "5", "6", "7", "8", "9"}

\* [A-Za-z_]
IdentStart == Letters \cup {"_"}

\* [A-Za-z0-9_]
IdentRest == Letters \cup Digits \cup {"_"}

\* the end of the longest run of characters of [A-Za-z0-9_] that starts at k
RECURSIVE RunEnd(_, _)
RunEnd(s, k) ==
    IF k + 1 <= Len(s) /\ s[k + 1] \in IdentRest THEN RunEnd(s, k + 1) ELSE k

\* the match of <\{\{([A-Za-z_][A-Za-z0-9_]*)\}\}> that starts at i: the
\* position of its last character, or 0 when there is none
MatchEnd(s, i) ==
    IF /\ i + 6 <= Len(s)
       /\ SubSeq(s, i, i + 2) = <<"<", "{", "{">>
       /\ s[i + 3] \in IdentStart
       /\ RunEnd(s, i + 3) + 3 <= Len(s)
       /\ SubSeq(s, RunEnd(s, i + 3) + 1, RunEnd(s, i + 3) + 3) = <<"}", "}", ">">>
    THEN RunEnd(s, i + 3) + 3
    ELSE 0

\* Regex::captures_iter from the position pos: group 1 of the successive
\* leftmost matches, which do not overlap
RECURSIVE Captures(_, _)
Captures(s, pos) ==
    IF pos > Len(s) THEN <<>>
    ELSE IF MatchEnd(s, pos) > 0
        THEN <<SubSeq(s, pos + 3, MatchEnd(s, pos) - 3)>> \o Captures(s, MatchEnd(s, pos) + 1)
    ELSE Captures(s, pos + 1)

\* the loop with the HashSet seen: the first occurrence of each name is kept
RECURSIVE Dedup(_, _)
Dedup(names, seen) ==
    IF names = <<>> THEN <<>>
    ELSE IF Head(names) \in seen THEN Dedup(Tail(names), seen)
    ELSE <<Head(names)>> \o Dedup(Tail(names), seen \cup {Head(names)})

\* format!("Value for {}", name)
ValueFor(name) == <<"V", "a", "l", "u", "e", " ", "f", "o", "r", " ">> \o name

PromptArgument(name) ==
    [name |-> name, description |-> ValueFor(name), required |-> TRUE]

\* extract_arguments_from_content with the HashSet seen forgotten
extract_arguments_keep_duplicates(content) ==
    [i \in DOMAIN Captures(content, 1) |-> PromptArgument(Captures(content, 1)[i])]

extract_arguments_from_content(content) ==
    [i \in DOMAIN Dedup(Captures(content, 1), {}) |->
        PromptArgument(Dedup(Captures(content, 1), {})[i])]

\* serde_json values: a string, a number, a boolean or null
JsonString(text) == [kind |-> "string", text |-> text, num |-> 0, flag |-> FALSE]

JsonNumber(n) == [kind |-> "number", text |-> <<>>, num |-> n, flag |-> FALSE]

JsonBool(b) == [kind |-> "bool", text |-> <<>>, num |-> 0, flag |-> b]

JsonNull == [kind |-> "null", text |-> <<>>, num |-> 0, flag |-> FALSE]

DigitChar(d) ==
    CASE d = 0 -> "0" [] d = 1 -> "1" [] d = 2 -> "2" [] d = 3 -> "3" [] d = 4 -> "4"
      [] d = 5 -> "5" [] d = 6 -> "6" [] d = 7 -> "7" [] d = 8 -> "8" [] d = 9 -> "9"

\* the decimal form of a natural number
RECURSIVE Decimal(_)
Decimal(n) == IF n < 10 THEN <<DigitChar(n)>> ELSE Decimal(n \div 10) \o <<DigitChar(n % 10)>>

\* Display of serde_json::Value (Value::to_string); the strings used here need
\* no escape
JsonToString(v) ==
    CASE v.kind = "string" -> <<"\"">> \o v.text \o <<"\"">>
      [] v.kind = "number" -> Decimal(v.num)
      [] v.kind = "bool" -> IF v.flag THEN <<"t", "r", "u", "e">> ELSE <<"f", "a", "l", "s", "e">>
      [] v.kind = "null" -> <<"n", "u", "l", "l">>

\* str::trim_matches(c)
RECURSIVE TrimMatchesStart(_, _), TrimMatchesEnd(_, _)
TrimMatchesStart(s, c) ==
    IF s # <<>> /\ Head(s) = c THEN TrimMatchesStart(Tail(s), c) ELSE s

TrimMatchesEnd(s, c) ==
    IF s # <<>> /\ s[Len(s)] = c THEN TrimMatchesEnd(SubSeq(s, 1, Len(s) - 1), c) ELSE s

TrimMatches(s, c) == TrimMatchesEnd(TrimMatchesStart(s, c), c)

\* Option<JsonObject>: None, or Some of a map from keys to values
NoArguments == [some |-> FALSE, map |-> <<>>]

SomeArguments(map) == [some |-> TRUE, map |-> map]

\* the closure written with to_string for every kind of value
Replacement_to_string(s, i, e, map) ==
    LET var_name == SubSeq(s, i + 3, e - 3) IN
        IF var_name \notin DOMAIN map THEN SubSeq(s, i, e)
        ELSE JsonToString(map[var_name])

\* the closure given to replace_all (mcp.rs:65-71) for the match s[i..e]
Replacement(s, i, e, map) ==
    LET var_name == SubSeq(s, i + 3, e - 3) IN
        IF var_name \notin DOMAIN map THEN SubSeq(s, i, e)
        ELSE IF map[var_name].kind = "string" THEN map[var_name].text
        ELSE TrimMatches(JsonToString(map[var_name]), "\"")

\* Regex::replace_all from the position pos: each match is replaced, the text
\* between the matches is copied, and the replacements are not scanned again
RECURSIVE ReplaceAll(_, _, _)
ReplaceAll(s, pos, map) ==
    IF pos > Len(s) THEN <<>>
    ELSE IF MatchEnd(s, pos) > 0
        THEN Replacement(s, pos, MatchEnd(s, pos), map)
                 \o ReplaceAll(s, MatchEnd(s, pos) + 1, map)
    ELSE <<s[pos]>> \o ReplaceAll(s, pos + 1, map)

\* substitute_arguments that removes the placeholders it has no value for
substitute_arguments_drop_unbound(content, arguments) ==
    IF ~arguments.some THEN content
    ELSE ReplaceAll(ReplaceAll(content, 1, arguments.map), 1,
                    [k \in {Captures(content, 1)[i] : i \in DOMAIN Captures(content, 1)}
                        |-> JsonString(<<>>)])

\* substitute_arguments that scans its own result once more
substitute_arguments_rescan(content, arguments) ==
    IF ~arguments.some THEN content
    ELSE ReplaceAll(ReplaceAll(content, 1, arguments.map), 1, arguments.map)

substitute_arguments(content, arguments) ==
    IF ~arguments.some THEN content
    ELSE ReplaceAll(content, 1, arguments.map)

(***************************************************************************)
(* The prompt server (src/commands/mcp.rs): the requests                   *)
(***************************************************************************)
NoError == [some |-> FALSE, code |-> "", message |-> "", cause |-> ""]

\* McpError::invalid_params(message, None); cause is the error the message
\* is formatted with
invalid_params(message, cause) ==
    [some |-> TRUE, code |-> "INVALID_PARAMS", message |-> message, cause |-> cause]

\* Option<Vec<PromptArgument>>
NoArgumentSpec == [some |-> FALSE, list |-> <<>>]

SomeArgumentSpec(list) == [some |-> TRUE, list |-> list]

\* format!("System prompt: {profile}")
SystemPrompt(profile) ==
    <<"S", "y", "s", "t", "e", "m", " ", "p", "r", "o", "m", "p", "t", ":", " ">> \o profile

\* Prompt::new(name, description, arguments)
Prompt(name, description, arguments) ==
    [name |-> name, description |-> description, arguments |-> arguments]

Response(op, name, arguments, profiles, pending, prompts, error, messages, touched) ==
    [op |-> op, name |-> name, arguments |-> arguments, profiles |-> profiles,
     pending |-> pending, prompts |-> prompts, error |-> error,
     messages |-> messages, touched |-> touched]

\* the body of the loop of list_prompts with Some of an empty list kept
ReadPrompt_some_empty(f, profile) ==
    LET c == get_content(f, profile) IN
        Prompt(profile, SystemPrompt(profile),
               IF c.res = "Ok" THEN SomeArgumentSpec(extract_arguments_from_content(c.value))
               ELSE NoArgumentSpec)

\* the body of the loop of list_prompts for a profile that is enabled
ReadPrompt(f, profile) ==
    LET c == get_content(f, profile) IN
        Prompt(profile, SystemPrompt(profile),
               IF c.res = "Ok" /\ extract_arguments_from_content(c.value) # <<>>
               THEN SomeArgumentSpec(extract_arguments_from_content(c.value))
               ELSE NoArgumentSpec)

\* get_prompt that reads the document before it looks at the configuration
get_prompt_read_first(f, cfg, name, arguments) ==
    LET c == get_content(f, name) IN
        IF c.res # "Ok"
        THEN Response("get-prompt", name, arguments, <<>>, <<>>, <<>>,
                      invalid_params("Prompt not found: ", c.res), <<>>, c.touched)
        ELSE IF ~is_prompt_enabled(cfg, name)
        THEN Response("get-prompt", name, arguments, <<>>, <<>>, <<>>,
                      invalid_params("Prompt is disabled", ""), <<>>, c.touched)
        ELSE Response("get-prompt", name, arguments, <<>>, <<>>, <<>>, NoError,
                      <<[role |-> "user", text |-> substitute_arguments(c.value, arguments)]>>,
                      c.touched)

\* get_prompt that loads config.toml again for each request
get_prompt_reload(f, cfg, name, arguments) ==
    LET c == get_content(f, name) IN
        IF ~is_prompt_enabled(load(f, StoragePath).value, name)
        THEN Response("get-prompt", name, arguments, <<>>, <<>>, <<>>,
                      invalid_params("Prompt is disabled", ""), <<>>, {})
        ELSE IF c.res # "Ok"
        THEN Response("get-prompt", name, arguments, <<>>, <<>>, <<>>,
                      invalid_params("Prompt not found: ", c.res), <<>>, c.touched)
        ELSE Response("get-prompt", name, arguments, <<>>, <<>>, <<>>, NoError,
                      <<[role |-> "user", text |-> substitute_arguments(c.value, arguments)]>>,
                      c.touched)

\* get_prompt that returns the content as it is stored
get_prompt_raw(f, cfg, name, arguments) ==
    LET c == get_content(f, name) IN
        IF ~is_prompt_enabled(cfg, name)
        THEN Response("get-prompt", name, arguments, <<>>, <<>>, <<>>,
                      invalid_params("Prompt is disabled", ""), <<>>, {})
        ELSE IF c.res # "Ok"
        THEN Response("get-prompt", name, arguments, <<>>, <<>>, <<>>,
                      invalid_params("Prompt not found: ", c.res), <<>>, c.touched)
        ELSE Response("get-prompt", name, arguments, <<>>, <<>>, <<>>, NoError,
                      <<[role |-> "user", text |-> c.value]>>, c.touched)

get_prompt(f, cfg, name, arguments) ==
    LET c == get_content(f, name) IN
        IF ~is_prompt_enabled(cfg, name)
        THEN Response("get-prompt", name, arguments, <<>>, <<>>, <<>>,
                      invalid_params("Prompt is disabled", ""), <<>>, {})
        ELSE IF c.res # "Ok"
        THEN Response("get-prompt", name, arguments, <<>>, <<>>, <<>>,
                      invalid_params("Prompt not found: ", c.res), <<>>, c.touched)
        ELSE Response("get-prompt", name, arguments, <<>>, <<>>, <<>>, NoError,
                      <<[role |-> "user", text |-> substitute_arguments(c.value, arguments)]>>,
                      c.touched)

(***************************************************************************)
(* Inputs                                                                  *)
(***************************************************************************)
\* the names given to the commands: a, a.md, a.md/b, ../x
OpNames ==
    { <<"a">>, <<"a", ".", "m", "d">>, <<"a", ".", "m", "d", "/", "b">>,
      <<".", ".", "/", "x">> }

Contents == { <<"x">>, <<"y">> }

\* what the editor can leave in the temporary file: a content, or only a
\* heading
EditorOutputs == Contents \cup { <<"#", " ", "x">> }

\* the number of create commands that can be in their editor at once
MaxEditors == 2

RECURSIVE Total(_, _)
Total(e, names) ==
    IF names = {} THEN 0
    ELSE LET n == CHOOSE n \in names : TRUE IN e[n] + Total(e, names \ {n})

\* a file next to the repository, outside it: <root>/x.md
OutsideFile == StoragePath \o << <<"x", ".", "m", "d">> >>

ConfigFile == StoragePath \o << <<"c", "o", "n", "f", "i", "g", ".", "t", "o", "m", "l">> >>

\* a storage with an empty repository
InitFs ==
    (StoragePath :> DirNode) @@ (RepoPath :> DirNode)
    @@ (ConfigFile :> FileNode(to_string(DefaultConfig))) @@ (OutsideFile :> FileNode(<<"y">>))

\* the same with a profile placed in the repository beforehand: b/c.md
PlacedFs ==
    (RepoPath \o << <<"b">> >> :> DirNode)
    @@ (RepoPath \o << <<"b">>, <<"c", ".", "m", "d">> >> :> FileNode(<<"y">>))
    @@ InitFs

\* no request answered yet
NoResponse == Response("none", <<>>, NoArguments, <<>>, <<>>, <<>>, NoError, <<>>, {})

\* no template function applied yet
NoOutput == [op |-> "none", input |-> <<>>, args |-> <<>>, text |-> <<>>]

Done(op, name, content, r) ==
    [op |-> op, name |-> name, content |-> content,
     res |-> r.res, value |-> r.value, touched |-> r.touched]

(***************************************************************************)
(* Actions                                                                 *)
(***************************************************************************)
Init ==
    /\ fs \in {InitFs, PlacedFs}
    /\ pre = fs
    /\ last = Done("init", <<>>, <<>>, Outcome("Ok", <<>>, fs, {}))
    /\ editing = [n \in OpNames |-> 0]
    /\ vname = <<>>
    /\ vres = "none"
    /\ config = DefaultConfig
    /\ resp = NoResponse
    /\ tcontent = <<>>
    /\ targs = NoArguments
    /\ tout = NoOutput
    /\ env = NoEnv
    /\ appending = NoAppends

\* profile show <name>
Show(name) ==
    /\ last' = Done("show", name, <<>>, get_profile_content(fs, name))
    /\ pre' = fs
    /\ UNCHANGED <<fs, editing, vname, vres, config, resp, tcontent, targs, tout, env, appending>>

\* profile delete <name>; confirmed is the answer to the confirmation
Delete(name, confirmed) ==
    LET p == get_repo_path(fs, name)
        d == delete_profile(fs, name)
    IN  /\ pre' = fs
        /\ UNCHANGED <<editing, vname, vres, config, resp, tcontent, targs, tout, env, appending>>
        /\ IF p.res # "Ok"
              THEN last' = Done("delete", name, <<>>, p) /\ fs' = fs
           ELSE IF ~IsFile(fs, p.value)
              THEN /\ last' = Done("delete", name, <<>>,
                                   Outcome("IOError", <<>>, fs, p.touched))
                   /\ fs' = fs
           ELSE IF ~confirmed
              THEN /\ last' = Done("delete", name, <<>>,
                                   Outcome("Cancelled", <<>>, fs,
                                           p.touched \cup {Access(p.value, "read")}))
                   /\ fs' = fs
           ELSE /\ last' = Done("delete", name, <<>>,
                                Outcome(d.res, <<>>, d.fs,
                                        d.touched \cup {Access(p.value, "read")}))
                /\ fs' = d.fs

\* profile edit <name>; the editor leaves the content saved in the file
Edit(name, saved) ==
    LET p == get_repo_path(fs, name) IN
        /\ pre' = fs
        /\ UNCHANGED <<editing, vname, vres, config, resp, tcontent, targs, tout, env, appending>>
        /\ IF p.res # "Ok"
              THEN last' = Done("edit", name, <<>>, p) /\ fs' = fs
           ELSE IF IsFile(fs, p.value)
              THEN /\ last' = Done("edit", name, saved,
                                   Outcome("Ok", <<>>, fs,
                                           p.touched \cup {Access(p.value, "write")}))
                   /\ fs' = [fs EXCEPT ![p.value] = FileNode(saved)]
           ELSE /\ last' = Done("edit", name, <<>>, Outcome("Ok", <<>>, fs, p.touched))
                /\ fs' = fs

\* profile create <name>, up to the start of the editor
CreateCheck(name) ==
    /\ Total(editing, OpNames) < MaxEditors
    /\ pre' = fs
    /\ UNCHANGED <<fs, vname, vres, config, resp, tcontent, targs, tout, env, appending>>
    /\ IF profile_exists(fs, name)
          THEN /\ last' = Done("create_check", name, <<>>,
                               Outcome("AlreadyExists", <<>>, fs,
                                       {Access(ProfilePath(fs, name), "stat")}))
               /\ editing' = editing
       ELSE IF validate_profile_name(name) # "Ok"
          THEN /\ last' = Done("create_check", name, <<>>,
                               Outcome("InvalidName", <<>>, fs, {}))
               /\ editing' = editing
       ELSE /\ last' = Done("create_check", name, <<>>, Outcome("Editing", <<>>, fs, {}))
            /\ editing' = [editing EXCEPT ![name] = @ + 1]

\* profile create <name>, from the return of the editor
CreateWrite(name, success, content) ==
    LET c == create_profile(fs, name, content) IN
        /\ editing[name] > 0
        /\ editing' = [editing EXCEPT ![name] = @ - 1]
        /\ pre' = fs
        /\ UNCHANGED <<vname, vres, config, resp, tcontent, targs, tout, env, appending>>
        /\ IF ~success
              THEN /\ last' = Done("create_write", name, content,
                                   Outcome("EditorFailed", <<>>, fs, {}))
                   /\ fs' = fs
           ELSE IF EffectivelyEmpty(name, content)
              THEN /\ last' = Done("create_write", name, content,
                                   Outcome("Cancelled", <<>>, fs, {}))
                   /\ fs' = fs
           ELSE /\ last' = Done("create_write", name, content, c)
                /\ fs' = c.fs

\* profile list
List ==
    /\ \E l \in list_repos(fs) :
           last' = Done("list", <<>>, <<>>, Outcome("Ok", l, fs, {}))
    /\ pre' = fs
    /\ UNCHANGED <<fs, editing, vname, vres, config, resp, tcontent, targs, tout, env, appending>>

Next ==
    \/ \E name \in OpNames : Show(name)
    \/ \E name \in OpNames, confirmed \in BOOLEAN : Delete(name, confirmed)
    \/ \E name \in OpNames, saved \in Contents : Edit(name, saved)
    \/ \E name \in OpNames : CreateCheck(name)
    \/ \E name \in OpNames, success \in BOOLEAN, content \in EditorOutputs :
           CreateWrite(name, success, content)
    \/ List

Spec == Init /\ [][Next]_vars

(***************************************************************************)
(* The validator on its own                                                *)
(***************************************************************************)
InitValidate ==
    /\ fs = InitFs
    /\ pre = InitFs
    /\ last = Done("init", <<>>, <<>>, Outcome("Ok", <<>>, InitFs, {}))
    /\ editing = [n \in OpNames |-> 0]
    /\ vname \in ValNames
    /\ vres = "none"
    /\ config = DefaultConfig
    /\ resp = NoResponse
    /\ tcontent = <<>>
    /\ targs = NoArguments
    /\ tout = NoOutput
    /\ env = NoEnv
    /\ appending = NoAppends

Validate ==
    /\ vres = "none"
    /\ vres' = validate_profile_name(vname)
    /\ UNCHANGED <<fs, pre, last, editing, vname, config, resp, tcontent, targs, tout, env, appending>>

SpecValidate == InitValidate /\ [][Validate]_vars

(***************************************************************************)
(* The template functions alone, applied to bounded contents and arguments *)
(***************************************************************************)
MaxPieces == 3

PX == <<"<", "{", "{", "X", "}", "}", ">">>

PY == <<"<", "{", "{", "Y", "}", "}", ">">>

PX1 == <<"<", "{", "{", "X", "_", "1", "}", "}", ">">>

POpen == <<"<", "{", "{">>

PClose == <<"}", "}", ">">>

\* the look-alikes of a placeholder: <{X}>, {{X}}, <X> and <{{1X}}>
Malformed ==
    { <<"<", "{", "X", "}", ">">>, <<"{", "{", "X", "}", "}">>, <<"<", "X", ">">>,
      <<"<", "{", "{", "1", "X", "}", "}", ">">> }

Pieces == {PX, PY, PX1, POpen, PClose, <<"t">>} \cup Malformed

RECURSIVE Concats(_)
Concats(n) ==
    IF n = 0 THEN {<<>>} ELSE {p \o c : p \in Pieces, c \in Concats(n - 1)}

TContents == UNION {Concats(n) : n \in 0..MaxPieces}

KX == <<"X">>

KY == <<"Y">>

KX1 == <<"X", "_", "1">>

TArguments ==
    { NoArguments,
      SomeArguments(<<>>),
      SomeArguments(KX :> JsonString(<<"v">>)),
      SomeArguments(KX :> JsonString(PY) @@ KY :> JsonString(<<"z">>)),
      SomeArguments(KX :> JsonString(KY) @@ KY :> JsonString(<<"z">>)),
      SomeArguments(KX :> JsonString(PX)),
      SomeArguments(KX :> JsonNumber(8080)),
      SomeArguments(KX :> JsonBool(TRUE) @@ KX1 :> JsonNull),
      SomeArguments(KY :> JsonString(<<>>)) }

Applied(op, input, args, text) ==
    [op |-> op, input |-> input, args |-> args, text |-> text]

InitTemplate ==
    /\ fs = InitFs
    /\ pre = fs
    /\ last = Done("init", <<>>, <<>>, Outcome("Ok", <<>>, fs, {}))
    /\ editing = [n \in OpNames |-> 0]
    /\ vname = <<>>
    /\ vres = "none"
    /\ config = DefaultConfig
    /\ resp = NoResponse
    /\ tcontent \in TContents
    /\ targs \in TArguments
    /\ tout = NoOutput
    /\ env = NoEnv
    /\ appending = NoAppends

Extract ==
    /\ tout' = Applied("extract", tcontent, extract_arguments_from_content(tcontent), <<>>)
    /\ UNCHANGED <<fs, pre, last, editing, vname, vres, config, resp, tcontent, targs, env, appending>>

Substitute ==
    /\ tout' = Applied("substitute", tcontent, <<>>, substitute_arguments(tcontent, targs))
    /\ UNCHANGED <<fs, pre, last, editing, vname, vres, config, resp, tcontent, targs, env, appending>>

\* substitute_arguments applied to its own result, with the same arguments
Resubstitute ==
    /\ tout.op = "substitute"
    /\ tout' = Applied("resubstitute", tout.text, <<>>, substitute_arguments(tout.text, targs))
    /\ UNCHANGED <<fs, pre, last, editing, vname, vres, config, resp, tcontent, targs, env, appending>>

NextTemplate == Extract \/ Substitute \/ Resubstitute

SpecTemplate == InitTemplate /\ [][NextTemplate]_vars

(***************************************************************************)
(* The prompt server on a repository, with the command line of another     *)
(* process deleting profiles meanwhile                                     *)
(***************************************************************************)
NameA == <<"a">>

NameAB == <<"a", "/", "b">>

NameUpperA == <<"A">>

NameC == <<"c">>

ServerNames == {NameA, NameAB, NameUpperA, NameC}

\* a repository with a.md, a/b.md and A.md; there is no c.md
ServerFs ==
    (RepoPath \o << <<"a", ".", "m", "d">> >> :> FileNode(PX \o <<"t">> \o PY \o PX))
    @@ (RepoPath \o << <<"a">> >> :> DirNode)
    @@ (RepoPath \o << <<"a">>, <<"b", ".", "m", "d">> >>
            :> FileNode(<<"<", "{", "X", "}", ">">>))
    @@ (RepoPath \o << <<"A", ".", "m", "d">> >> :> FileNode(PX1))
    @@ InitFs

DisablePrompts ==
    { DisableBool(TRUE), DisableBool(FALSE), DisableList(<<>>), DisableList(<<NameA>>),
      DisableList(<<NameAB, NameC>>) }

DisableTools == { DisableBool(FALSE), DisableBool(TRUE), DisableList(<<NameA>>) }

ServerArguments ==
    { NoArguments, SomeArguments(<<>>), SomeArguments(KX :> JsonString(<<"v">>)),
      SomeArguments(KX :> JsonNumber(8080) @@ KY :> JsonString(PX)) }

InitServer ==
    /\ \E p \in DisablePrompts, t \in DisableTools :
           config = [DefaultConfig EXCEPT !.mcp = [disable_prompts |-> p, disable_tools |-> t]]
    /\ fs = (ConfigFile :> FileNode(to_string(config))) @@ ServerFs
    /\ pre = fs
    /\ last = Done("init", <<>>, <<>>, Outcome("Ok", <<>>, fs, {}))
    /\ editing = [n \in OpNames |-> 0]
    /\ vname = <<>>
    /\ vres = "none"
    /\ resp = NoResponse
    /\ tcontent = <<>>
    /\ targs = NoArguments
    /\ tout = NoOutput
    /\ env = NoEnv
    /\ appending = NoAppends

\* prompts/get
GetPrompt(name, arguments) ==
    /\ resp.op # "listing"
    /\ resp' = get_prompt(fs, config, name, arguments)
    /\ fs' = IF is_prompt_enabled(config, name) THEN get_content(fs, name).fs ELSE fs
    /\ UNCHANGED <<pre, last, editing, vname, vres, config, tcontent, targs, tout, env, appending>>

\* prompts/list, up to the result of list_repos
ListPromptsEnumerate ==
    /\ resp.op # "listing"
    /\ \E profiles \in list_repos(fs) :
           resp' = Response("listing", <<>>, NoArguments, profiles, profiles, <<>>,
                            NoError, <<>>, {})
    /\ UNCHANGED <<fs, pre, last, editing, vname, vres, config, tcontent, targs, tout, env, appending>>

\* prompts/list, one turn of the loop over the profiles; the result is
\* returned after the last one
ListPromptsRead ==
    /\ resp.op = "listing"
    /\ resp' = [resp EXCEPT
           !.op = IF Len(resp.pending) <= 1 THEN "list-prompts" ELSE "listing",
           !.pending = IF resp.pending = <<>> THEN <<>> ELSE Tail(resp.pending),
           !.prompts = IF resp.pending # <<>> /\ is_prompt_enabled(config, Head(resp.pending))
                       THEN Append(resp.prompts, ReadPrompt(fs, Head(resp.pending)))
                       ELSE resp.prompts]
    /\ fs' = IF resp.pending # <<>> /\ is_prompt_enabled(config, Head(resp.pending))
             THEN get_content(fs, Head(resp.pending)).fs
             ELSE fs
    /\ UNCHANGED <<pre, last, editing, vname, vres, config, tcontent, targs, tout, env, appending>>

NextServer ==
    \/ \E name \in ServerNames, arguments \in ServerArguments : GetPrompt(name, arguments)
    \/ ListPromptsEnumerate
    \/ ListPromptsRead
    \/ \E name \in ServerNames : Delete(name, TRUE)

SpecServer == InitServer /\ [][NextServer]_vars

(***************************************************************************)
(* A running instance (the prompt server and the completion helper) with   *)
(* its Config loaded, while config.toml is written again by someone else   *)
(***************************************************************************)
\* internal_completion, EnabledCommands: the lines it prints
enabled_commands(cfg) ==
    <<"profile", "completion">>
        \o (IF ~cfg.agents.disable_claude
            THEN <<"set-claude-profile", "reset-claude-profile", "append-claude-profile">>
            ELSE <<>>)
        \o (IF ~cfg.agents.disable_codex
            THEN <<"set-codex-profile", "reset-codex-profile", "append-codex-profile">>
            ELSE <<>>)
        \o (IF is_mcp_enabled(cfg) THEN <<"mcp">> ELSE <<>>)

ConfigPrompts ==
    { DisableBool(TRUE), DisableBool(FALSE), DisableList(<<>>), DisableList(ListA),
      DisableList(ListAll) }

ConfigTools ==
    { DisableBool(TRUE), DisableBool(FALSE), DisableList(<<>>), DisableList(ListA) }

\* the documents config.toml can hold at the start
ConfigDocuments ==
    {to_string([DefaultConfig EXCEPT !.mcp = [disable_prompts |-> p, disable_tools |-> t]]) :
        p \in ConfigPrompts, t \in ConfigTools}

\* what is written to config.toml later
Rewritten ==
    { DefaultConfig,
      [DefaultConfig EXCEPT !.mcp = [disable_prompts |-> DisableBool(TRUE),
                                     disable_tools |-> DisableBool(TRUE)]] }

InitConfig ==
    /\ \E d \in ConfigDocuments : fs = (ConfigFile :> FileNode(d)) @@ ServerFs
    /\ new(fs, StoragePath).res = "Ok"
    /\ config = new(fs, StoragePath).value.config
    /\ pre = fs
    /\ last = Done("init", <<>>, <<>>, Outcome("Ok", <<>>, fs, {}))
    /\ editing = [n \in OpNames |-> 0]
    /\ vname = <<>>
    /\ vres = "none"
    /\ resp = NoResponse
    /\ tcontent = <<>>
    /\ targs = NoArguments
    /\ tout = NoOutput
    /\ env = NoEnv
    /\ appending = NoAppends

\* pmx internal-completion enabled-commands
EnabledCommands ==
    /\ last' = Done("enabled-commands", <<>>, <<>>,
                    Outcome("Ok", enabled_commands(config), fs, {}))
    /\ pre' = fs
    /\ UNCHANGED <<fs, editing, vname, vres, config, resp, tcontent, targs, tout, env, appending>>

\* config.toml is written again, by Config::persist of another value
PersistConfig(cfg) ==
    /\ fs' = persist(fs, cfg, StoragePath).fs
    /\ UNCHANGED <<pre, last, editing, vname, vres, config, resp, tcontent, targs, tout, env, appending>>

NextConfig ==
    \/ \E name \in ServerNames : GetPrompt(name, NoArguments)
    \/ ListPromptsEnumerate
    \/ ListPromptsRead
    \/ EnabledCommands
    \/ \E cfg \in Rewritten : PersistConfig(cfg)

SpecConfig == InitConfig /\ [][NextConfig]_vars

(***************************************************************************)
(* Start-up: the discovery of the storage root and Storage::new on it      *)
(***************************************************************************)
\* the root given by the environment variable PMX_CONFIG_FILE
EnvRoot == << <<"v">> >>

\* the directory given by XDG_CONFIG_HOME
XdgRoot == << <<"g">> >>

AgentsLines == <<"[agents]", "disable_claude = false", "disable_codex = true">>

\* documents that leave out the mcp group or fields of it
OmittingDocuments ==
    { AgentsLines,
      AgentsLines \o <<"", "[mcp]">>,
      AgentsLines \o <<"", "[mcp]", "disable_tools = [\"a\"]">>,
      AgentsLines \o <<"", "[mcp]", "disable_prompts = true">> }

CompleteDocuments ==
    { AgentsLines \o <<"", "[mcp]", "disable_prompts = [\"a\"]", "disable_tools = true">>,
      to_string(DefaultConfig) }

\* documents that are not a Config: empty, a required field missing, a value
\* of a wrong type, a line that is not TOML, a key given twice, no agents
MalformedDocuments ==
    { <<>>,
      <<"[agents]", "disable_claude = false">>,
      AgentsLines \o <<"", "[mcp]", "disable_prompts = 1">>,
      AgentsLines \o <<"", "[mcp">>,
      AgentsLines \o <<"", "[mcp]", "disable_tools = true", "disable_tools = false">>,
      <<"[mcp]", "disable_prompts = true">> }

\* a root directory at path with repo/ and a config.toml that holds doc
RootWith(path, doc) ==
    (path :> DirNode) @@ (path \o << <<"r", "e", "p", "o">> >> :> DirNode)
    @@ (ConfigPath(path) :> FileNode(doc))

\* what can be at the place of a root
RootStates(path) ==
    { <<>>,
      path :> FileNode(<<>>),
      path :> DirNode,
      (path :> DirNode) @@ (ConfigPath(path) :> FileNode(to_string(DefaultConfig))),
      (path \o << <<"r", "e", "p", "o">> >> :> FileNode(<<>>)) @@ RootWith(path, to_string(DefaultConfig)),
      (path :> DirNode) @@ (path \o << <<"r", "e", "p", "o">> >> :> DirNode),
      (ConfigPath(path) :> DirNode) @@ RootWith(path, <<>>) }
    \cup {RootWith(path, doc) :
             doc \in OmittingDocuments \cup CompleteDocuments \cup MalformedDocuments}

\* the same, for the roots that are only looked at by the discovery
FewRootStates(path) ==
    { <<>>, path :> DirNode, RootWith(path, to_string(DefaultConfig)) }

\* the home directory and its .config
HomeFs == (HomePath :> DirNode) @@ (SubSeq(OtherPath, 1, Len(OtherPath) - 1) :> DirNode)

InitStartup ==
    /\ \E a \in RootStates(StoragePath), v \in FewRootStates(EnvRoot),
          g \in FewRootStates(XdgRoot), o \in FewRootStates(OtherPath) :
           fs = a @@ v @@ g @@ o @@ HomeFs
    /\ env \in {Environment(a, v, g) :
                   a \in {NoPath, StoragePath}, v \in {NoPath, EnvRoot}, g \in {NoPath, XdgRoot}}
    /\ pre = fs
    /\ last = Done("init", <<>>, <<>>, Outcome("Ok", <<>>, fs, {}))
    /\ editing = [n \in OpNames |-> 0]
    /\ vname = <<>>
    /\ vres = "none"
    /\ config = DefaultConfig
    /\ resp = NoResponse
    /\ tcontent = <<>>
    /\ targs = NoArguments
    /\ tout = NoOutput
    /\ appending = NoAppends

\* main up to the storage: the root is chosen and the Storage constructed;
\* storage is the result of lines 8-12
Startup(storage) ==
    /\ last.op = "init"
    /\ last' = Done("startup", <<>>, <<>>, storage)
    /\ fs' = storage.fs
    /\ config' = IF storage.res = "Ok" THEN storage.value.config ELSE config
    /\ pre' = fs
    /\ UNCHANGED <<editing, vname, vres, resp, tcontent, targs, tout, env, appending>>

\* a command of the process that has its storage
StartedEnabledCommands ==
    /\ last.op = "startup"
    /\ last.res = "Ok"
    /\ resp' = [resp EXCEPT !.op = "enabled-commands", !.profiles = enabled_commands(config)]
    /\ UNCHANGED <<fs, pre, last, editing, vname, vres, config, tcontent, targs, tout, env, appending>>

NextStartup == Startup(discover(fs, env)) \/ StartedEnabledCommands

SpecStartup == InitStartup /\ [][NextStartup]_vars

(***************************************************************************)
(* The agent integrations (src/commands/claude_code.rs and                 *)
(* src/commands/openai_codex.rs): set, reset and append of the profile of  *)
(* an agent, the append in two steps, its reads and its write              *)
(***************************************************************************)
\* home_dir().join(".claude")
ClaudeDir == HomePath \o << <<".", "c", "l", "a", "u", "d", "e">> >>

\* claude_dir.join("CLAUDE.md")
ClaudeFile == ClaudeDir \o << <<"C", "L", "A", "U", "D", "E", ".", "m", "d">> >>

\* home_dir().join(".codex")
CodexDir == HomePath \o << <<".", "c", "o", "d", "e", "x">> >>

\* codex_dir.join("AGENTS.md")
CodexFile == CodexDir \o << <<"A", "G", "E", "N", "T", "S", ".", "m", "d">> >>

\* the body that set_claude_profile and set_codex_profile share: disabled is
\* the flag of the agent, dir and file are its directory and its document
set_agent_profile(f, disabled, dir, file, profile) ==
    LET source == ProfilePath(f, profile)
        d == create_dir_all(f, <<>>, dir, {})
    IN  IF disabled THEN Outcome("Disabled", <<>>, f, {})
        ELSE IF ~PathExists(f, source) THEN Outcome("NotFound", <<>>, f, {})
        ELSE IF ~d.ok THEN Outcome("IOError", <<>>, d.fs, d.made)
        ELSE IF ~IsFile(d.fs, source) \/ IsDir(d.fs, file)
            THEN Outcome("IOError", <<>>, d.fs, d.made)
        ELSE Outcome("Ok", <<>>, (file :> FileNode(d.fs[source].content)) @@ d.fs,
                     d.made \cup {Access(source, "read"), Access(file, "write")})

\* set_claude_profile that looks at the flag of the other agent
set_claude_profile_codex_flag(f, cfg, profile) ==
    set_agent_profile(f, cfg.agents.disable_codex, ClaudeDir, ClaudeFile, profile)

set_claude_profile(f, cfg, profile) ==
    set_agent_profile(f, cfg.agents.disable_claude, ClaudeDir, ClaudeFile, profile)

set_codex_profile(f, cfg, profile) ==
    set_agent_profile(f, cfg.agents.disable_codex, CodexDir, CodexFile, profile)

\* the body that reset_claude_profile and reset_codex_profile share
reset_agent_profile(f, disabled, file) ==
    IF disabled THEN Outcome("Disabled", <<>>, f, {})
    ELSE IF ~PathExists(f, file) THEN Outcome("Ok", <<>>, f, {})
    ELSE IF ~IsFile(f, file) THEN Outcome("IOError", <<>>, f, {Access(file, "stat")})
    ELSE Outcome("Ok", <<>>, [q \in DOMAIN f \ {file} |-> f[q]], {Access(file, "remove")})

reset_claude_profile(f, cfg) == reset_agent_profile(f, cfg.agents.disable_claude, ClaudeFile)

reset_codex_profile(f, cfg) == reset_agent_profile(f, cfg.agents.disable_codex, CodexFile)

\* an append that forgets what the document held
combined_content_profile_only(existing_content, profile_content) == profile_content

\* format!("{existing_content}\n\n{profile_content}")
combined_content(existing_content, profile_content) ==
    existing_content \o <<Newline, Newline>> \o profile_content

\* what an append has read: whether the document existed, what it held, the
\* content of the profile, and what it is going to write
Pending(agent, profile, existed, existing_content, profile_content) ==
    [agent |-> agent, profile |-> profile, existed |-> existed,
     existing_content |-> existing_content, profile_content |-> profile_content,
     content |-> IF existed THEN combined_content(existing_content, profile_content)
                 ELSE profile_content]

NoPending == Pending("none", <<>>, FALSE, <<>>, <<>>)

\* the body that append_claude_profile and append_codex_profile share, up to
\* the content to write: the value is what has been read
append_agent_read(f, agent, disabled, dir, file, profile) ==
    LET source == ProfilePath(f, profile)
        d == create_dir_all(f, <<>>, dir, {})
    IN  IF disabled THEN Outcome("Disabled", NoPending, f, {})
        ELSE IF ~PathExists(f, source) THEN Outcome("NotFound", NoPending, f, {})
        ELSE IF ~d.ok THEN Outcome("IOError", NoPending, d.fs, d.made)
        ELSE IF ~IsFile(d.fs, source) THEN Outcome("IOError", NoPending, d.fs, d.made)
        ELSE IF ~PathExists(d.fs, file)
            THEN Outcome("Ok", Pending(agent, profile, FALSE, <<>>, d.fs[source].content),
                         d.fs, d.made \cup {Access(source, "read")})
        ELSE IF ~IsFile(d.fs, file)
            THEN Outcome("IOError", NoPending, d.fs, d.made \cup {Access(source, "read")})
        ELSE Outcome("Ok",
                     Pending(agent, profile, TRUE, d.fs[file].content, d.fs[source].content),
                     d.fs, d.made \cup {Access(source, "read"), Access(file, "read")})

\* the std::fs::write that ends an append
append_agent_write(f, file, pending) ==
    IF IsDir(f, file) \/ ~IsDir(f, Parent(file)) \/ Parent(file) \notin DOMAIN f
    THEN Outcome("IOError", pending, f, {})
    ELSE Outcome("Ok", pending, (file :> FileNode(pending.content)) @@ f,
                 {Access(file, "write")})

append_claude_profile_read(f, cfg, profile) ==
    append_agent_read(f, "claude", cfg.agents.disable_claude, ClaudeDir, ClaudeFile, profile)

append_codex_profile_read(f, cfg, profile) ==
    append_agent_read(f, "codex", cfg.agents.disable_codex, CodexDir, CodexFile, profile)

Agents == {"claude", "codex"}

AgentFile(agent) == IF agent = "claude" THEN ClaudeFile ELSE CodexFile

MaxAppends == 2

NameB == <<"b">>

\* the profiles appended: two that exist and one that does not
AgentProfiles == {NameA, NameB, NameC}

\* the profiles set: one that exists and one that does not
SetProfiles == {NameA, NameC}

\* a repository with a.md and b.md, and the home directory
AgentsFs ==
    (RepoPath \o << <<"a", ".", "m", "d">> >> :> FileNode(<<"x">>))
    @@ (RepoPath \o << <<"b", ".", "m", "d">> >> :> FileNode(<<"y">>))
    @@ (HomePath :> DirNode) @@ InitFs

\* the same with a CLAUDE.md that is there already
AgentsFsWithDocument ==
    (ClaudeDir :> DirNode) @@ (ClaudeFile :> FileNode(<<"d">>)) @@ AgentsFs

\* the result of a command of an agent
AgentDone(op, agent, profile, r) ==
    [op |-> op, agent |-> agent, name |-> profile, res |-> r.res, value |-> r.value,
     touched |-> r.touched]

InitAgents ==
    /\ \E c \in BOOLEAN, x \in BOOLEAN :
           config = [DefaultConfig EXCEPT !.agents = [disable_claude |-> c, disable_codex |-> x]]
    /\ \E f \in {AgentsFs, AgentsFsWithDocument} :
           fs = (ConfigFile :> FileNode(to_string(config))) @@ f
    /\ pre = fs
    /\ last = AgentDone("init", "none", <<>>, Outcome("Ok", NoPending, fs, {}))
    /\ editing = [n \in OpNames |-> 0]
    /\ vname = <<>>
    /\ vres = "none"
    /\ resp = NoResponse
    /\ tcontent = <<>>
    /\ targs = NoArguments
    /\ tout = NoOutput
    /\ env = NoEnv
    /\ appending = NoAppends

\* pmx set-claude-profile <profile> and pmx set-codex-profile <profile>
SetProfile(agent, profile) ==
    LET r == IF agent = "claude" THEN set_claude_profile(fs, config, profile)
             ELSE set_codex_profile(fs, config, profile)
    IN  /\ last' = AgentDone("set", agent, profile, [r EXCEPT !.value = NoPending])
        /\ fs' = r.fs
        /\ pre' = fs
        /\ UNCHANGED <<editing, vname, vres, config, resp, tcontent, targs, tout, env, appending>>

\* pmx reset-claude-profile and pmx reset-codex-profile
ResetProfile(agent) ==
    LET r == IF agent = "claude" THEN reset_claude_profile(fs, config)
             ELSE reset_codex_profile(fs, config)
    IN  /\ last' = AgentDone("reset", agent, <<>>, [r EXCEPT !.value = NoPending])
        /\ fs' = r.fs
        /\ pre' = fs
        /\ UNCHANGED <<editing, vname, vres, config, resp, tcontent, targs, tout, env, appending>>

\* pmx append-claude-profile <profile> and pmx append-codex-profile <profile>,
\* up to the content to write
AppendRead(agent, profile) ==
    LET r == IF agent = "claude" THEN append_claude_profile_read(fs, config, profile)
             ELSE append_codex_profile_read(fs, config, profile)
    IN  /\ appending.started < MaxAppends
        /\ last' = AgentDone("append-read", agent, profile, r)
        /\ fs' = r.fs
        /\ pre' = fs
        /\ appending' = IF r.res = "Ok"
                        THEN [pending |-> Append(appending.pending, r.value),
                              started |-> appending.started + 1]
                        ELSE appending
        /\ UNCHANGED <<editing, vname, vres, config, resp, tcontent, targs, tout, env>>

\* the write of the append that is i-th of those that have read
AppendWrite(i) ==
    LET p == appending.pending[i]
        r == append_agent_write(fs, AgentFile(p.agent), p)
    IN  /\ last' = AgentDone("append-write", p.agent, p.profile, r)
        /\ fs' = r.fs
        /\ pre' = fs
        /\ appending' = [appending EXCEPT
               !.pending = SubSeq(@, 1, i - 1) \o SubSeq(@, i + 1, Len(@))]
        /\ UNCHANGED <<editing, vname, vres, config, resp, tcontent, targs, tout, env>>

NextAgents ==
    \/ \E agent \in Agents, profile \in SetProfiles : SetProfile(agent, profile)
    \/ \E agent \in Agents : ResetProfile(agent)
    \/ \E agent \in Agents, profile \in AgentProfiles : AppendRead(agent, profile)
    \/ \E i \in DOMAIN appending.pending : AppendWrite(i)

SpecAgents == InitAgents /\ [][NextAgents]_vars

(***************************************************************************)
(* Properties                                                              *)
(***************************************************************************)
Range(q) == {q[i] : i \in DOMAIN q}

\* the last command ran Storage::create_profile
RanCreateProfile ==
    last.op = "create_write" /\ last.res \notin {"EditorFailed", "Cancelled"}

\* the document of a name: the regular file at its path
HasDocument(f, name) == IsFile(f, ProfilePath(f, name))

\* C1: every access a command makes for a name is to a node inside
\* <root>/repo, whatever the name
C1_Confined == \A t \in last.touched : InsideRepo(t.path)

\* C2: create_profile on a name whose document already exists fails with
\* AlreadyExists and leaves the filesystem as it was
C2_CreateFailsClosed ==
    (RanCreateProfile /\ HasDocument(pre, last.name))
        => (last.res = "AlreadyExists" /\ fs = pre)

\* C3: after create_profile succeeds for a valid name, the profile exists and
\* reading it gives exactly the written content
C3_RoundTrip ==
    (RanCreateProfile /\ last.res = "Ok" /\ validate_profile_name(last.name) = "Ok")
        => /\ profile_exists(fs, last.name)
           /\ get_profile_content(fs, last.name).res = "Ok"
           /\ get_profile_content(fs, last.name).value = last.content

\* a nested profile was created below a directory that did not exist
C3_Witness ==
    /\ RanCreateProfile
    /\ last.res = "Ok"
    /\ Contains(last.name, <<"/">>)
    /\ ~IsDir(pre, Parent(ProfilePath(fs, last.name)))
    /\ get_profile_content(fs, last.name).value = last.content

\* the rules of the specification, the length counted in code points
BreaksRule(name) ==
    \/ name = <<>>
    \/ Len(name) > MaxNameLen
    \/ Contains(name, <<".", ".">>)
    \/ Contains(name, <<"\\">>)
    \/ \E i \in DOMAIN Split(name, "/") :
           Split(name, "/")[i] \in {<<>>, <<".">>, <<".", ".">>}
    \/ \E i \in DOMAIN name : name[i] \in InvalidChars
    \/ \E i \in DOMAIN name : IsControl(name[i])

\* C4: the validator rejects every name that breaks a rule
C4_RejectsRuleBreakers == (vres # "none" /\ BreaksRule(vname)) => vres # "Ok"

\* C5: the validator accepts every name that breaks no rule, the length
\* limit being 255 code points
C5_AcceptsRuleKeepers == (vres # "none" /\ ~BreaksRule(vname)) => vres = "Ok"

\* C6: create on an invalid or existing name changes nothing, and an invalid
\* name is reported as InvalidName without any access to the storage
C6_FailFast ==
    (/\ last.op = "create_check"
     /\ (validate_profile_name(last.name) # "Ok" \/ profile_exists(pre, last.name)))
        => /\ fs = pre
           /\ last.res \in {"InvalidName", "AlreadyExists"}
           /\ validate_profile_name(last.name) # "Ok"
                 => (last.res = "InvalidName" /\ last.touched = {})

\* C7: delete and read of a name with no document fail with NotFound and
\* change nothing; resolve fails with NotFound on such a name, and succeeds
\* exactly when exists is true
C7_MissingIsNotFound ==
    /\ (last.op \in {"delete", "show"} /\ ~HasDocument(pre, last.name))
          => (last.res = "NotFound" /\ fs = pre)
    /\ \A n \in OpNames :
          /\ ~HasDocument(fs, n) => get_repo_path(fs, n).res = "NotFound"
          /\ (get_repo_path(fs, n).res = "Ok") <=> profile_exists(fs, n)

\* C8: after a successful delete the name does not exist, cannot be read, is
\* not listed, and every other node is as before
C8_DeleteRemoves ==
    (last.op = "delete" /\ last.res = "Ok")
        => /\ ~profile_exists(fs, last.name)
           /\ get_profile_content(fs, last.name).res = "NotFound"
           /\ \A l \in list_repos(fs) : last.name \notin Range(l)
           /\ DOMAIN fs = DOMAIN pre \ {ProfilePath(pre, last.name)}
           /\ \A p \in DOMAIN fs : fs[p] = pre[p]

\* the regular files with extension md below <root>/repo
MdFiles(f) ==
    {p \in DOMAIN f : InsideRepo(p) /\ IsFile(f, p) /\ HasMdExtension(p[Len(p)])}

\* the relative path, joined by "/", without its final ".md"
LogicalName(p) ==
    LET rel == JoinSlash(SubSeq(p, Len(RepoPath) + 1, Len(p))) IN
        SubSeq(rel, 1, Len(rel) - Len(DotMd))

\* C9: list returns exactly the logical names of the md files below
\* <root>/repo, each once
C9_ListExact ==
    last.op = "list"
        => /\ Range(last.value) = {LogicalName(p) : p \in MdFiles(fs)}
           /\ Len(last.value) = Cardinality(MdFiles(fs))
           /\ Cardinality(Range(last.value)) = Len(last.value)

\* lexicographic order of two strings
RECURSIVE LexLeq(_, _)
LexLeq(s, t) ==
    IF s = <<>> THEN TRUE
    ELSE IF t = <<>> THEN FALSE
    ELSE IF Head(s) # Head(t) THEN CharCode(Head(s)) < CharCode(Head(t))
    ELSE LexLeq(Tail(s), Tail(t))

\* C10: the sequence list returns is in lexicographic order, whatever the
\* order in which the directory entries are delivered
C10_ListSorted ==
    last.op = "list"
        => \A i, j \in DOMAIN last.value :
               i < j => LexLeq(last.value[i], last.value[j])

(***************************************************************************)
(* Properties of the template functions                                    *)
(***************************************************************************)
\* s[i..j] is a placeholder: <{{ then an identifier then }}>
IsPlaceholder(s, i, j) ==
    /\ 1 <= i
    /\ i + 6 <= j
    /\ j <= Len(s)
    /\ SubSeq(s, i, i + 2) = <<"<", "{", "{">>
    /\ SubSeq(s, j - 2, j) = <<"}", "}", ">">>
    /\ s[i + 3] \in IdentStart
    /\ \A k \in (i + 4)..(j - 3) : s[k] \in IdentRest

\* the placeholders of s, as pairs of positions
Occurrences(s) ==
    {o \in {i \in 1..Len(s) : s[i] = "<"} \X {j \in 1..Len(s) : s[j] = ">"} :
        IsPlaceholder(s, o[1], o[2])}

Identifier(s, o) == SubSeq(s, o[1] + 3, o[2] - 3)

\* (occ is the set of the placeholders of s)
FirstOccurrence(s, id, occ) ==
    CHOOSE i \in 1..Len(s) :
        /\ \E o \in occ : o[1] = i /\ Identifier(s, o) = id
        /\ \A o \in occ : Identifier(s, o) = id => i <= o[1]

\* the text a value stands for: a string as it is, another value in its JSON
\* notation
TextOf(v) == IF v.kind = "string" THEN v.text ELSE JsonToString(v)

\* what position k of s contributes to the substituted text
\* (occ is the set of the placeholders of s)
Contribution(s, k, map, occ) ==
    IF \E o \in occ : o[1] = k
    THEN LET o == CHOOSE o \in occ : o[1] = k IN
             IF Identifier(s, o) \in DOMAIN map THEN TextOf(map[Identifier(s, o)])
             ELSE SubSeq(s, o[1], o[2])
    ELSE IF \E o \in occ : o[1] < k /\ k <= o[2] THEN <<>>
    ELSE <<s[k]>>

RECURSIVE Contributions(_, _, _, _)
Contributions(s, k, map, occ) ==
    IF k > Len(s) THEN <<>>
    ELSE Contribution(s, k, map, occ) \o Contributions(s, k + 1, map, occ)

\* the placeholders of s whose identifier is a key of the arguments
BoundOccurrences(s, arguments) ==
    {o \in Occurrences(s) : arguments.some /\ Identifier(s, o) \in DOMAIN arguments.map}

\* C17: the extracted arguments name every identifier that occurs in a
\* placeholder <{{IDENTIFIER}}> of the content, each once, in the order of the
\* first occurrences; the look-alikes <{X}>, {{X}}, <X> and <{{1X}}> give
\* nothing.
C17_ExtractPlaceholders ==
    tout.op = "extract" =>
        LET occ == Occurrences(tcontent) IN
            /\ {tout.args[i].name : i \in DOMAIN tout.args}
                   = {Identifier(tcontent, o) : o \in occ}
            /\ \A i, j \in DOMAIN tout.args :
                   i < j => FirstOccurrence(tcontent, tout.args[i].name, occ)
                                < FirstOccurrence(tcontent, tout.args[j].name, occ)
            /\ tcontent \in Malformed => tout.args = <<>>

\* a content with a repeated placeholder after another one has been extracted
C17_Witness ==
    /\ tout.op = "extract"
    /\ tcontent = PY \o PX \o PY
    /\ Len(tout.args) = 2

\* C18: the substituted text is the content with every placeholder whose
\* identifier is a key replaced by the text of its value, and everything else
\* (the other placeholders included) as it was; without arguments, or with an
\* empty map, it is the content.
C18_Substitute ==
    tout.op = "substitute" =>
        /\ targs.some => tout.text = Contributions(tcontent, 1, targs.map, Occurrences(tcontent))
        /\ (~targs.some \/ DOMAIN targs.map = {}) => tout.text = tcontent

\* a bound and an unbound placeholder in one content, the value not a string
C18_Witness ==
    /\ tout.op = "substitute"
    /\ tcontent = PX \o <<"t">> \o PY
    /\ targs = SomeArguments(KX :> JsonNumber(8080))
    /\ tout.text = <<"8", "0", "8", "0", "t">> \o PY

\* C19: the text put in place of a placeholder is not scanned again: the
\* result is the result for the text before the placeholder, then the value,
\* then the result for the text after it.
C19_SinglePass ==
    tout.op = "substitute" =>
        \A o \in BoundOccurrences(tcontent, targs) :
            tout.text = substitute_arguments(SubSeq(tcontent, 1, o[1] - 1), targs)
                            \o TextOf(targs.map[Identifier(tcontent, o)])
                            \o substitute_arguments(SubSeq(tcontent, o[2] + 1, Len(tcontent)), targs)

\* the value of X completes <{{ and }}> to a placeholder of the bound Y, which
\* stays in the result
C19_Witness ==
    /\ tout.op = "substitute"
    /\ tcontent = POpen \o PX \o PClose
    /\ targs = SomeArguments(KX :> JsonString(KY) @@ KY :> JsonString(<<"z">>))
    /\ tout.text = PY

\* C20: substituting again changes nothing when the first result has no
\* placeholder whose identifier is a key, and substituting with the empty map
\* changes nothing.
C20_Idempotent ==
    /\ (tout.op = "resubstitute" /\ BoundOccurrences(tout.input, targs) = {})
           => tout.text = tout.input
    /\ (tout.op = "substitute" /\ targs = SomeArguments(<<>>)) => tout.text = tcontent

\* a second substitution after a first one that replaced a placeholder
C20_Witness ==
    /\ tout.op = "resubstitute"
    /\ BoundOccurrences(tcontent, targs) # {}
    /\ BoundOccurrences(tout.input, targs) = {}
    /\ tout.text = tout.input

\* substituting twice gives what substituting once gives, whatever the result
C20_IdempotentAlways == tout.op = "resubstitute" => tout.text = tout.input

(***************************************************************************)
(* Properties of the prompt server                                         *)
(***************************************************************************)
\* the table of the configuration: everything is hidden by true, nothing by
\* false, and a list hides its elements
Hidden(cfg, name) ==
    \/ cfg.mcp.disable_prompts = DisableBool(TRUE)
    \/ /\ cfg.mcp.disable_prompts.tag = "List"
       /\ name \in Range(cfg.mcp.disable_prompts.names)

PromptNames(prompts) == [i \in DOMAIN prompts |-> prompts[i].name]

\* C11: a prompt is enabled exactly when the configuration does not hide it
\* (true hides all, false and the empty list none, the list <<a>> hides a but
\* neither a/b nor A), whatever disable_tools is.
C11_EnablementTable ==
    resp.op = "get-prompt" =>
        /\ is_prompt_enabled(config, resp.name) = ~Hidden(config, resp.name)
        /\ \A t \in DisableTools :
               is_prompt_enabled([config EXCEPT !.mcp.disable_tools = t], resp.name)
                   = is_prompt_enabled(config, resp.name)
        /\ config.mcp.disable_prompts = DisableList(<<NameA>>) =>
               /\ ~is_prompt_enabled(config, NameA)
               /\ is_prompt_enabled(config, NameAB)
               /\ is_prompt_enabled(config, NameUpperA)
        /\ (resp.error.message = "Prompt is disabled") = Hidden(config, resp.name)

\* a/b is asked for and answered while a is in the list and all tools are
\* disabled
C11_Witness ==
    /\ resp.op = "get-prompt"
    /\ resp.name = NameAB
    /\ config.mcp.disable_prompts = DisableList(<<NameA>>)
    /\ config.mcp.disable_tools = DisableBool(TRUE)
    /\ ~resp.error.some

\* C12: the names of the listed prompts are the names list_repos returned
\* that the configuration does not hide, in the same order.
C12_ListFiltered ==
    /\ resp.op = "list-prompts" =>
           PromptNames(resp.prompts)
               = SelectSeq(resp.profiles, LAMBDA n : ~Hidden(config, n))
    /\ resp.op = "listing" =>
           PromptNames(resp.prompts)
               = SelectSeq(SubSeq(resp.profiles, 1, Len(resp.profiles) - Len(resp.pending)),
                           LAMBDA n : ~Hidden(config, n))

\* three profiles enumerated, a hidden, the two others listed
C12_Witness ==
    /\ resp.op = "list-prompts"
    /\ config.mcp.disable_prompts = DisableList(<<NameA>>)
    /\ Len(resp.profiles) = 3
    /\ Len(resp.prompts) = 2

\* C13: a request for a hidden name is answered with "Prompt is disabled"
\* and nothing of the repository has been looked at, whether the document
\* exists or not.
C13_DisabledBeforeRead ==
    (resp.op = "get-prompt" /\ Hidden(config, resp.name)) =>
        /\ resp.error.some
        /\ resp.error.message = "Prompt is disabled"
        /\ resp.messages = <<>>
        /\ resp.touched = {}

\* a hidden name that has a document
C13_Witness ==
    /\ resp.op = "get-prompt"
    /\ resp.name = NameAB
    /\ config.mcp.disable_prompts = DisableList(<<NameAB, NameC>>)
    /\ HasDocument(fs, NameAB)
    /\ resp.error.message = "Prompt is disabled"

\* C14: the error for a hidden name is of another kind than the error the
\* server gives for a visible name without a document.
C14_DistinctErrorKinds ==
    (resp.op = "get-prompt" /\ Hidden(config, resp.name)) =>
        resp.error.code
            # get_prompt(fs, [config EXCEPT !.mcp.disable_prompts = DisableBool(FALSE)],
                         NameC, resp.arguments).error.code

\* C15: a request for a visible name that has a document is answered with
\* one message, the content of the document with the arguments substituted.
C15_GetSubstitutes ==
    (resp.op = "get-prompt" /\ ~Hidden(config, resp.name) /\ HasDocument(fs, resp.name)) =>
        /\ ~resp.error.some
        /\ Len(resp.messages) = 1
        /\ resp.messages[1].role = "user"
        /\ resp.messages[1].text
               = substitute_arguments(fs[ProfilePath(fs, resp.name)].content, resp.arguments)

\* a with a number for X and a string for Y
C15_Witness ==
    /\ resp.op = "get-prompt"
    /\ resp.name = NameA
    /\ DOMAIN resp.arguments.map = {KX, KY}
    /\ Len(resp.messages) = 1
    /\ resp.messages[1].text
           = <<"8", "0", "8", "0", "t">> \o PX \o <<"8", "0", "8", "0">>

\* the argument specification the content of a document asks for
ExpectedArguments(content) ==
    IF Occurrences(content) = {} THEN {}
    ELSE {[name |-> Identifier(content, o), required |-> TRUE] : o \in Occurrences(content)}

ListedArguments(prompt) ==
    IF ~prompt.arguments.some THEN {}
    ELSE {[name |-> prompt.arguments.list[i].name,
           required |-> prompt.arguments.list[i].required] :
              i \in DOMAIN prompt.arguments.list}

\* C16: each turn of the listing that adds a prompt gives it the placeholders
\* of its document, each required, and no specification when there is none
\* or when the document cannot be read; the listing never ends in an error.
C16_BestEffortListing ==
    [][(resp.op = "listing" /\ Len(resp'.prompts) = Len(resp.prompts) + 1) =>
          LET prompt == resp'.prompts[Len(resp'.prompts)] IN
              /\ prompt.name = Head(resp.pending)
              /\ ~resp'.error.some
              /\ prompt.arguments.some => prompt.arguments.list # <<>>
              /\ HasDocument(fs, prompt.name) =>
                     ListedArguments(prompt)
                         = ExpectedArguments(fs[ProfilePath(fs, prompt.name)].content)
              /\ ~HasDocument(fs, prompt.name) => ~prompt.arguments.some]_vars

\* a was enumerated, deleted before it was read, and is listed without
\* arguments, next to A with its argument
C16_Witness ==
    /\ resp.op = "list-prompts"
    /\ ~resp.error.some
    /\ \E i, j \in DOMAIN resp.prompts :
           /\ resp.prompts[i].name = NameA
           /\ ~resp.prompts[i].arguments.some
           /\ resp.prompts[j].name = NameUpperA
           /\ resp.prompts[j].arguments.some

(***************************************************************************)
(* Properties of listing against lookup, and of interleaved creates        *)
(***************************************************************************)
\* C29: every name list returns exists and can be read, and every name that
\* validate accepts and that has a document is returned by list.
C29_ListAgreesWithLookup ==
    last.op = "list"
        => /\ \A i \in DOMAIN last.value :
                  /\ profile_exists(fs, last.value[i])
                  /\ get_profile_content(fs, last.value[i]).res = "Ok"
           /\ \A name \in OpNames :
                  (validate_profile_name(name) = "Ok" /\ HasDocument(fs, name))
                      => name \in Range(last.value)

\* C30: a create that reports success has not written over a document that
\* was there when it wrote.
C30_CreateDoesNotOverwrite ==
    (last.op = "create_write" /\ last.res = "Ok") => ~HasDocument(pre, last.name)

(***************************************************************************)
(* Properties of the Config                                                *)
(***************************************************************************)
\* C21: the mcp command is offered unless disable_prompts and disable_tools
\* are both Bool(true); every other pair of values, lists included, leaves
\* it offered.
C21_ProtocolEnabled ==
    last.op = "enabled-commands" =>
        ("mcp" \in Range(last.value))
            = (<<config.mcp.disable_prompts, config.mcp.disable_tools>>
                   # <<DisableBool(TRUE), DisableBool(TRUE)>>)

\* the list names every profile of the repository, all tools are disabled,
\* and mcp is offered
C21_Witness ==
    /\ last.op = "enabled-commands"
    /\ config.mcp.disable_prompts = DisableList(ListAll)
    /\ config.mcp.disable_tools = DisableBool(TRUE)
    /\ "mcp" \in Range(last.value)

\* the Config a new instance would load from config.toml now
OnDisk == load(fs, StoragePath).value

\* C24: the Config of the instance never changes, and each answer (the
\* rejection of a prompt, the names listed, the offer of mcp) is the one its
\* Config asks for, whatever config.toml holds by now.
C24_ConfigLoadedOnce ==
    [][/\ config' = config
       /\ resp'.op = "get-prompt" =>
              (resp'.error.message = "Prompt is disabled") = Hidden(config, resp'.name)
       /\ resp'.op = "list-prompts" =>
              PromptNames(resp'.prompts)
                  = SelectSeq(resp'.profiles, LAMBDA n : ~Hidden(config, n))
       /\ last'.op = "enabled-commands" =>
              ("mcp" \in Range(last'.value))
                  = (<<config.mcp.disable_prompts, config.mcp.disable_tools>>
                         # <<DisableBool(TRUE), DisableBool(TRUE)>>)]_vars

\* config.toml now disables everything, the instance was started with
\* everything enabled, and a is still served
C24_Witness ==
    /\ resp.op = "get-prompt"
    /\ resp.name = NameA
    /\ ~resp.error.some
    /\ config.mcp.disable_prompts = DisableBool(FALSE)
    /\ OnDisk.mcp.disable_prompts = DisableBool(TRUE)

(***************************************************************************)
(* Properties of the start-up                                              *)
(***************************************************************************)
\* the process was started with the explicit root, which held doc
StartedOn(doc) ==
    /\ last.op = "startup"
    /\ env.arg = StoragePath
    /\ validate(pre, StoragePath) = "Ok"
    /\ pre[ConfigPath(StoragePath)].content = doc

\* C22: a document without the mcp group, or without one of its two fields,
\* is loaded; what it leaves out is Bool(false) and what it gives is kept.
C22_OmittedDefaults ==
    \A doc \in OmittingDocuments :
        StartedOn(doc) =>
            /\ last.res = "Ok"
            /\ config.agents = [disable_claude |-> FALSE, disable_codex |-> TRUE]
            /\ config.mcp.disable_prompts
                   = IF "disable_prompts = true" \in Range(doc)
                     THEN DisableBool(TRUE) ELSE DisableBool(FALSE)
            /\ config.mcp.disable_tools
                   = IF "disable_tools = [\"a\"]" \in Range(doc)
                     THEN DisableList(ListA) ELSE DisableBool(FALSE)

\* the document gives disable_tools only
C22_Witness ==
    /\ StartedOn(AgentsLines \o <<"", "[mcp]", "disable_tools = [\"a\"]">>)
    /\ last.res = "Ok"
    /\ config.mcp.disable_prompts = DisableBool(FALSE)
    /\ config.mcp.disable_tools = DisableList(ListA)

\* the root lacks a part, has a part of the wrong kind, or holds a document
\* that is not a Config
BadRoot(f, path) ==
    \/ path \notin DOMAIN f
    \/ ~IsDir(f, path)
    \/ ~IsDir(f, path \o << <<"r", "e", "p", "o">> >>)
    \/ ~IsFile(f, ConfigPath(path))
    \/ f[ConfigPath(path)].content \in MalformedDocuments

\* C23: Storage::new on a bad root fails and changes nothing, and the storage
\* a process starts with is never on a bad root.
C23_ConstructionStrict ==
    /\ (last.op = "startup" /\ env.arg = StoragePath /\ BadRoot(pre, StoragePath))
           => (last.res # "Ok" /\ fs = pre /\ config = DefaultConfig)
    /\ (last.op = "startup" /\ last.res = "Ok") => ~BadRoot(fs, last.value.path)

\* a document with a field of a wrong type is refused
C23_Witness ==
    /\ StartedOn(AgentsLines \o <<"", "[mcp]", "disable_prompts = 1">>)
    /\ last.res = "ParseError"

\* the roots the discovery can try, in its order
Candidates(e) ==
    SelectSeq(<<e.arg, e.pmx_config_file, e.xdg_config_home, OtherPath>>,
              LAMBDA p : p # NoPath)

\* C25: the storage is on the first candidate that is a valid root, and when
\* no candidate is one the start-up still succeeds, on a root it has just
\* initialized with the default Config.
C25_DiscoveryAutoInit ==
    last.op = "startup" =>
        LET valid == SelectSeq(Candidates(env), LAMBDA p : new(pre, p).res = "Ok") IN
            /\ last.res = "Ok"
            /\ new(fs, last.value.path).res = "Ok"
            /\ valid # <<>> => (last.value.path = Head(valid) /\ fs = pre)
            /\ valid = <<>> => config = DefaultConfig

(***************************************************************************)
(* Properties of the server as a reader                                    *)
(***************************************************************************)
\* C28: a step of the server (a step that is not a command of another
\* process) leaves the filesystem and the Config as they are, and the answer
\* to a get-prompt request is the one that the Config, the repository and
\* the request give, whatever was answered before.
C28_ServerReadOnly ==
    [][(last' = last /\ pre' = pre) =>
          /\ fs' = fs
          /\ config' = config
          /\ resp'.op = "get-prompt" =>
                 resp' = get_prompt(fs, config, resp'.name, resp'.arguments)]_vars

\* a request that failed for a missing document, with the filesystem as it
\* was at the start
C28_Witness ==
    /\ resp.op = "get-prompt"
    /\ resp.name = NameC
    /\ resp.error.message = "Prompt not found: "
    /\ last.op = "init"
    /\ fs = pre
    /\ NameC \notin {p[Len(p)] : p \in DOMAIN fs}

(***************************************************************************)
(* Properties of the agent integrations                                    *)
(***************************************************************************)
\* the flag of an agent in the configuration
AgentDisabled(agent) ==
    IF agent = "claude" THEN config.agents.disable_claude ELSE config.agents.disable_codex

\* C26: each flag gates the integration of its own agent only. A set, a reset
\* or an append of an agent whose flag is true fails before it touches
\* anything, whatever the flag of the other agent; one of an agent whose flag
\* is false is never refused as disabled.
C26_FlagGatesOwnAgent ==
    last.op \in {"set", "reset", "append-read", "append-write"} =>
        IF AgentDisabled(last.agent)
        THEN /\ last.res = "Disabled"
             /\ last.touched = {}
             /\ fs = pre
        ELSE last.res # "Disabled"

\* Claude is disabled and Codex is not: a set of the Claude profile has been
\* refused, nothing touched
C26_Witness ==
    /\ config.agents.disable_claude
    /\ ~config.agents.disable_codex
    /\ last.op = "set"
    /\ last.agent = "claude"
    /\ last.name = NameA
    /\ last.res = "Disabled"
    /\ fs = pre
    /\ CodexFile \in DOMAIN fs

\* the document of the agent of the last command, in filesystem f
Document(f) == f[AgentFile(last.agent)].content

\* C27: the write of an append leaves in the document what that append read
\* in it, a blank line, and the content of the profile, or the content of
\* the profile alone when it found no document: the document is the one of
\* the last writer. When nothing wrote the document between the read and
\* the write of the append, what the document held stays as its prefix.
C27_AppendReadThenWrite ==
    (last.op = "append-write" /\ last.res = "Ok") =>
        /\ AgentFile(last.agent) \in DOMAIN fs
        /\ Document(fs) = IF last.value.existed
                          THEN last.value.existing_content \o <<Newline, Newline>>
                                   \o last.value.profile_content
                          ELSE last.value.profile_content
        /\ (/\ AgentFile(last.agent) \in DOMAIN pre
            /\ IsFile(pre, AgentFile(last.agent))
            /\ last.value.existed
            /\ Document(pre) = last.value.existing_content)
               => /\ IsPrefix(Document(pre), Document(fs))
                  /\ Len(Document(fs)) = Len(Document(pre)) + 2 + Len(last.value.profile_content)

\* two appends to CLAUDE.md have read the document "d" before either wrote:
\* the one of a.md wrote first, the one of b.md last, and the document is
\* the one of b.md, without the content of a.md
C27_Witness ==
    /\ last.op = "append-write"
    /\ last.agent = "claude"
    /\ last.name = NameB
    /\ last.res = "Ok"
    /\ appending.started = 2
    /\ appending.pending = <<>>
    /\ ClaudeFile \in DOMAIN pre
    /\ ClaudeFile \in DOMAIN fs
    /\ pre[ClaudeFile].content = <<"d", Newline, Newline, "x">>
    /\ fs[ClaudeFile].content = <<"d", Newline, Newline, "y">>

====
